---- MODULE Spec2Model ----
(***************************************************************************)
(* Routing + presence runtime of the VoicePing router.                     *)
(*                                                                         *)
(* The Store (Redis) executes the commands each worker sent on its         *)
(* `client` and `publisher` connections, in per-connection FIFO order;     *)
(* replies, pub/sub messages and expired-key events travel back on         *)
(* per-worker queues and are handled one callback at a time.  Time is a    *)
(* global clock counted in ticks; PRESENCE_TTL is the configured TTL in    *)
(* the same unit.                                                          *)
(*                                                                         *)
(* User ids are sequences of ':'-free segments, so that "a:b" is           *)
(* <<"a","b">> and a Store key is the sequence of its ':'-separated        *)
(* segments.                                                               *)
(***************************************************************************)
EXTENDS Integers, Sequences, FiniteSets, TLC

\* ------------------------------------------------------------------ bounds
MaxTime == 3
MaxCalls == 2
MaxHeartbeats == 1
MaxQueries == 1
MaxSends == 1
MaxMembers == 2
MaxTurns == 2
PRESENCE_TTL == 2
PING_INTERVAL == 1

\* ----------------------------------------------------------- finite domains
Instances == {"w1", "w2"}
Users == {<<"A">>, <<"B">>}
Conns == {"k1", "k2"}
Roles == {"mobile", "web", "dashboard"}
Groups == {"g1"}
PRESENCE_ENABLED == TRUE
DYNAMODB_ENABLED == TRUE

VARIABLES
  now,          \* Date.now(), in ticks
  live,         \* the workers that were started
  pkey,         \* Store: presence:user:{u} -> expiry time, 0 when absent
  meta,         \* Store: presence:meta:{u} hash (status, lastSeen)
  storeNotify,  \* Store: notify-keyspace-events includes Ex
  cmdq,         \* per worker: commands sent on `client`, not yet executed
  pubq,         \* per worker: PUBLISH commands sent on `publisher`
  replies,      \* per worker: replies not yet handed to their callback
  subq,         \* per worker: pub/sub messages pending on `subscriber`
  expq,         \* per worker: expired-key events pending on keyspaceSubscriber
  ksEnabled,    \* per worker: keyspaceNotificationsEnabled
  clients,      \* per worker: Server.clients
  sockets,      \* per worker: Server.sockets
  webClients,   \* per worker: Server.webClients
  sock,         \* per socket: readyState, owner, Connection.timestamp
  recv,         \* per socket: frames written to it, in order
  calls,        \* per kind: number of externally triggered operations so far
  expiries,     \* per user: number of expirations of presence:user:{u}
  lookups,      \* per worker: group-membership lookups in flight
  uncaught,     \* per worker: an exception escaped an event handler
  httpPending,  \* per worker: HTTP requests waiting for the bulk callback
  httpRes,      \* HTTP responses written, in order
  mirror,       \* status mirror: the (user, status) updates sent to it
  transitionAck, \* per worker: what the last transition callback was given
  current,      \* Store: current-speaker lock per group and per user
  stq,          \* per worker: States commands sent, not yet executed
  stReplies,    \* per worker: States replies not yet handed to a callback
  conn,         \* per socket: its Connection (listeners, decodes, emissions)
  resolved,     \* what the promise of the last getUserFromToken resolved to
  published     \* history: messages the Store accepted for publication

storeVars == <<pkey, meta, storeNotify>>
wireVars == <<cmdq, pubq, replies, subq, expq>>
routerVars == <<clients, sockets, webClients, sock, recv>>
routeVars == <<lookups, uncaught>>
httpVars == <<httpPending, httpRes>>
ackVars == <<mirror, transitionAck>>
stateVars == <<current, stq, stReplies>>
vars == <<now, live, pkey, meta, storeNotify, cmdq, pubq, replies, subq,
          expq,
          ksEnabled, clients, sockets, webClients, sock, recv, calls,
          expiries, published, lookups, uncaught, httpPending, httpRes,
          mirror, transitionAck, current, stq, stReplies, conn,
          resolved>>

\* ------------------------------------------------------------ key registry
forPresence(userId) == <<"presence", "user">> \o userId

forPresenceMeta(userId) == <<"presence", "meta">> \o userId

\* expiredKey.startsWith("presence:user:")
IsPresenceKey(key) == Len(key) >= 3 /\ key[1] = "presence" /\ key[2] = "user"

\* key.split(":")[2]
UserIdOfKey(key) == <<key[3]>>

\* an id that contains the key separator: "A:x"
ColonIds == {<<"A", "x">>}

\* every id the Store can be asked about
StoreIds ==
  Users \cup ColonIds
  \cup {UserIdOfKey(forPresence(u)) : u \in Users \cup ColonIds}

\* ------------------------------------------------------------- records
NoMeta == [status |-> "none", lastSeen |-> -1]

Cmd(kind, user, ts, src) ==
  [kind |-> kind, user |-> user, ts |-> ts, src |-> src,
   ids |-> <<>>, chan |-> "", status |-> ""]

BulkCmd(ids, src) ==
  [kind |-> "bulk", user |-> <<>>, ts |-> 0, src |-> src,
   ids |-> ids, chan |-> "", status |-> ""]

PublishCmd(chan, user, status, ts, src) ==
  [kind |-> "publish", user |-> user, ts |-> ts, src |-> src,
   ids |-> <<>>, chan |-> chan, status |-> status]

Reply(c, err, exists, metas, keys) ==
  [kind |-> c.kind, user |-> c.user, ts |-> c.ts, src |-> c.src,
   ids |-> c.ids, err |-> err, exists |-> exists, metas |-> metas,
   keys |-> keys]

Update(c) ==
  [chan |-> c.chan, userId |-> c.user, status |-> c.status,
   timestamp |-> c.ts, src |-> c.src]

\* a set as a sequence, in a fixed order
RECURSIVE SetToSeq(_)
SetToSeq(S) ==
  IF S = {} THEN <<>>
  ELSE LET x == CHOOSE y \in S : TRUE IN <<x>> \o SetToSeq(S \ {x})

\* ------------------------------------------------------------- the Store
Exists(u) == pkey[u] > 0

\* HGETALL: null when the hash has no field
HGetAll(u) == meta[u]

MetaPresent(m) == m.status # "none" \/ m.lastSeen >= 0

\* KEYS presence:user:*
KeysReply == SetToSeq({forPresence(u) : u \in {v \in StoreIds : Exists(v)}})

\* ----------------------------------------------------- PresenceManager API
setUserOnline(q, userId, src) ==
  IF ~PRESENCE_ENABLED THEN q
  ELSE Append(q, Cmd("online", userId, now, src))

\* a refresh that returns as when presence is disabled
refreshHeartbeatDisabled(q, userId) == q

refreshHeartbeat(q, userId) ==
  IF ~PRESENCE_ENABLED THEN q
  ELSE Append(q, Cmd("refresh", userId, now, "heartbeat"))

setUserOffline(q, userId, src) ==
  IF ~PRESENCE_ENABLED THEN q
  ELSE Append(q, Cmd("offline", userId, now, src))

getBulkPresenceStatus(q, userIds, src) ==
  IF ~PRESENCE_ENABLED \/ Len(userIds) = 0 THEN q
  ELSE Append(q, BulkCmd(userIds, src))

getOnlineUsers(q, src) ==
  IF ~PRESENCE_ENABLED THEN q
  ELSE Append(q, Cmd("keys", <<>>, 0, src))

publishPresenceChange(q, userId, status, ts, src) ==
  LET channel == IF status = "online" THEN "presence:online"
                 ELSE "presence:offline"
  IN  Append(Append(q, PublishCmd(channel, userId, status, ts, src)),
             PublishCmd("presence:updates", userId, status, ts, src))

\* a derivation that trusts meta.status instead of the existence check
BulkEntryByStatus(userId, exists, metadata, t) ==
  IF metadata.status = "online"
  THEN [userId |-> userId, status |-> "online",
        lastSeen |-> IF metadata.lastSeen >= 0 THEN metadata.lastSeen ELSE t]
  ELSE IF MetaPresent(metadata) /\ metadata.lastSeen >= 0
  THEN [userId |-> userId, status |-> "offline",
        lastSeen |-> metadata.lastSeen]
  ELSE [userId |-> userId, status |-> "offline", lastSeen |-> 0]

\* a derivation that stamps an online entry with the time of the query
BulkEntryLastSeenNow(userId, exists, metadata, t) ==
  IF exists /\ MetaPresent(metadata)
  THEN [userId |-> userId, status |-> "online", lastSeen |-> t]
  ELSE IF MetaPresent(metadata) /\ metadata.lastSeen >= 0
  THEN [userId |-> userId, status |-> "offline",
        lastSeen |-> metadata.lastSeen]
  ELSE [userId |-> userId, status |-> "offline", lastSeen |-> 0]

\* the derivation of one entry in the callback of getBulkPresenceStatus
BulkEntry(userId, exists, metadata, t) ==
  IF exists /\ MetaPresent(metadata)
  THEN [userId |-> userId, status |-> "online",
        lastSeen |-> IF metadata.lastSeen >= 0 THEN metadata.lastSeen ELSE t]
  ELSE IF MetaPresent(metadata) /\ metadata.lastSeen >= 0
  THEN [userId |-> userId, status |-> "offline",
        lastSeen |-> metadata.lastSeen]
  ELSE [userId |-> userId, status |-> "offline", lastSeen |-> 0]

BulkUsers(r, t) ==
  [n \in 1..Len(r.ids) |-> BulkEntry(r.ids[n], r.exists[n], r.metas[n], t)]

\* --------------------------------------------------------------- helpers
Enqueue(i, q) == cmdq' = [cmdq EXCEPT ![i] = q]

HeadIs(q, kind) == q # <<>> /\ Head(q).kind = kind

Count(seq, P(_)) == Cardinality({n \in 1..Len(seq) : P(seq[n])})

\* ------------------------------------------------- the Store executes
\* CONFIG SET notify-keyspace-events Ex
\* CONFIG SET answered with an error: the command failed, or the Store
\* applied it and the reply was lost
ExecConfigFail(i) ==
  /\ i \in live /\ HeadIs(cmdq[i], "config")
  /\ cmdq' = [cmdq EXCEPT ![i] = Tail(@)]
  /\ storeNotify' \in {storeNotify, TRUE}
  /\ replies' = [replies EXCEPT ![i] =
                   Append(@, Reply(Head(cmdq[i]), TRUE, <<>>, <<>>, <<>>))]
  /\ UNCHANGED <<now, live, pkey, meta, subq, expq, ksEnabled, routerVars,
                 calls, expiries, published,
                 pubq,
                 routeVars, httpVars, ackVars, stateVars,
                 conn,
                 resolved>>

ExecConfig(i) ==
  /\ i \in live /\ HeadIs(cmdq[i], "config")
  /\ cmdq' = [cmdq EXCEPT ![i] = Tail(@)]
  /\ storeNotify' = TRUE
  /\ replies' = [replies EXCEPT ![i] =
                   Append(@, Reply(Head(cmdq[i]), FALSE, <<>>, <<>>, <<>>))]
  /\ UNCHANGED <<now, live, pkey, meta, subq, expq, ksEnabled, routerVars,
                 calls, expiries, published,
                 pubq,
                 routeVars, httpVars, ackVars, stateVars,
                 conn,
                 resolved>>

\* MULTI of setUserOnline: SET key 1 EX ttl, HSET status, HSET lastSeen
OnlineKey(c) == now + PRESENCE_TTL

\* an online transaction that forgets the status field
OnlineMetaLastSeenOnly(m, c) == [m EXCEPT !.lastSeen = c.ts]

OnlineMeta(m, c) == [m EXCEPT !.status = "online", !.lastSeen = c.ts]

ExecOnline(i) ==
  /\ i \in live /\ HeadIs(cmdq[i], "online")
  /\ LET c == Head(cmdq[i]) IN
     /\ pkey' = [pkey EXCEPT ![c.user] = OnlineKey(c)]
     /\ meta' = [meta EXCEPT ![c.user] = OnlineMeta(@, c)]
     /\ replies' = [replies EXCEPT ![i] =
                      Append(@, Reply(c, FALSE, <<>>, <<>>, <<>>))]
  /\ cmdq' = [cmdq EXCEPT ![i] = Tail(@)]
  /\ UNCHANGED <<now, live, storeNotify, subq, expq, ksEnabled, routerVars,
                 calls, expiries, published,
                 pubq,
                 routeVars, httpVars, ackVars, stateVars,
                 conn,
                 resolved>>

\* the transaction of setUserOnline answered with an error: the connection
\* failed either before the Store executed it or before its reply arrived
ExecOnlineFail(i) ==
  /\ i \in live /\ HeadIs(cmdq[i], "online")
  /\ LET c == Head(cmdq[i]) IN
     /\ \/ UNCHANGED <<pkey, meta>>
        \/ /\ pkey' = [pkey EXCEPT ![c.user] = OnlineKey(c)]
           /\ meta' = [meta EXCEPT ![c.user] = OnlineMeta(@, c)]
     /\ replies' = [replies EXCEPT ![i] =
                      Append(@, Reply(c, TRUE, <<>>, <<>>, <<>>))]
  /\ cmdq' = [cmdq EXCEPT ![i] = Tail(@)]
  /\ UNCHANGED <<now, live, storeNotify, subq, expq, ksEnabled, routerVars,
                 calls, expiries, published, pubq,
                 routeVars, httpVars, ackVars, stateVars,
                 conn,
                 resolved>>

\* MULTI of refreshHeartbeat: EXPIRE key ttl, HSET lastSeen
\* a refresh that leaves the remaining TTL as it is
RefreshKeyKeepTTL(k, c) == k

\* a refresh that sets the key with a TTL instead of EXPIRE
RefreshKeySet(k, c) == now + PRESENCE_TTL

RefreshKey(k, c) == IF k > 0 THEN now + PRESENCE_TTL ELSE k

RefreshMeta(m, c) == [m EXCEPT !.lastSeen = c.ts]

ExecRefresh(i) ==
  /\ i \in live /\ HeadIs(cmdq[i], "refresh")
  /\ LET c == Head(cmdq[i]) IN
     /\ pkey' = [pkey EXCEPT ![c.user] = RefreshKey(@, c)]
     /\ meta' = [meta EXCEPT ![c.user] = RefreshMeta(@, c)]
     /\ replies' = [replies EXCEPT ![i] =
                      Append(@, Reply(c, FALSE, <<>>, <<>>, <<>>))]
  /\ cmdq' = [cmdq EXCEPT ![i] = Tail(@)]
  /\ UNCHANGED <<now, live, storeNotify, subq, expq, ksEnabled, routerVars,
                 calls, expiries, published,
                 pubq,
                 routeVars, httpVars, ackVars, stateVars,
                 conn,
                 resolved>>

\* the transaction of refreshHeartbeat answered with an error: the connection
\* failed either before the Store executed it or before its reply arrived
ExecRefreshFail(i) ==
  /\ i \in live /\ HeadIs(cmdq[i], "refresh")
  /\ LET c == Head(cmdq[i]) IN
     /\ \/ UNCHANGED <<pkey, meta>>
        \/ /\ pkey' = [pkey EXCEPT ![c.user] = RefreshKey(@, c)]
           /\ meta' = [meta EXCEPT ![c.user] = RefreshMeta(@, c)]
     /\ replies' = [replies EXCEPT ![i] =
                      Append(@, Reply(c, TRUE, <<>>, <<>>, <<>>))]
  /\ cmdq' = [cmdq EXCEPT ![i] = Tail(@)]
  /\ UNCHANGED <<now, live, storeNotify, subq, expq, ksEnabled, routerVars,
                 calls, expiries, published, pubq,
                 routeVars, httpVars, ackVars, stateVars,
                 conn,
                 resolved>>

\* MULTI of setUserOffline: DEL key, HSET status, HSET lastSeen
\* an offline transaction that forgets the status field
OfflineMetaLastSeenOnly(m, c) == [m EXCEPT !.lastSeen = c.ts]

OfflineMeta(m, c) == [m EXCEPT !.status = "offline", !.lastSeen = c.ts]

ExecOffline(i) ==
  /\ i \in live /\ HeadIs(cmdq[i], "offline")
  /\ LET c == Head(cmdq[i]) IN
     /\ pkey' = [pkey EXCEPT ![c.user] = 0]
     /\ meta' = [meta EXCEPT ![c.user] = OfflineMeta(@, c)]
     /\ replies' = [replies EXCEPT ![i] =
                      Append(@, Reply(c, FALSE, <<>>, <<>>, <<>>))]
  /\ cmdq' = [cmdq EXCEPT ![i] = Tail(@)]
  /\ UNCHANGED <<now, live, storeNotify, subq, expq, ksEnabled, routerVars,
                 calls, expiries, published,
                 pubq,
                 routeVars, httpVars, ackVars, stateVars,
                 conn,
                 resolved>>

\* the transaction of setUserOffline answered with an error
ExecOfflineFail(i) ==
  /\ i \in live /\ HeadIs(cmdq[i], "offline")
  /\ LET c == Head(cmdq[i]) IN
     /\ \/ UNCHANGED <<pkey, meta>>
        \/ /\ pkey' = [pkey EXCEPT ![c.user] = 0]
           /\ meta' = [meta EXCEPT ![c.user] = OfflineMeta(@, c)]
     /\ replies' = [replies EXCEPT ![i] =
                      Append(@, Reply(c, TRUE, <<>>, <<>>, <<>>))]
  /\ cmdq' = [cmdq EXCEPT ![i] = Tail(@)]
  /\ UNCHANGED <<now, live, storeNotify, subq, expq, ksEnabled, routerVars,
                 calls, expiries, published, pubq,
                 routeVars, httpVars, ackVars, stateVars,
                 conn,
                 resolved>>

\* the transaction of getBulkPresenceStatus answered with an error
ExecBulkFail(i) ==
  /\ i \in live /\ HeadIs(cmdq[i], "bulk")
  /\ replies' = [replies EXCEPT ![i] =
                   Append(@, Reply(Head(cmdq[i]), TRUE, <<>>, <<>>, <<>>))]
  /\ cmdq' = [cmdq EXCEPT ![i] = Tail(@)]
  /\ UNCHANGED <<now, live, storeVars, subq, expq, ksEnabled, routerVars,
                 calls, expiries, published,
                 pubq,
                 routeVars, httpVars, ackVars, stateVars,
                 conn,
                 resolved>>

\* MULTI of getBulkPresenceStatus: EXISTS key ..., HGETALL meta ...
ExecBulk(i) ==
  /\ i \in live /\ HeadIs(cmdq[i], "bulk")
  /\ LET c == Head(cmdq[i]) IN
     replies' = [replies EXCEPT ![i] =
        Append(@, Reply(c, FALSE,
                        [n \in 1..Len(c.ids) |-> Exists(c.ids[n])],
                        [n \in 1..Len(c.ids) |-> HGetAll(c.ids[n])],
                        <<>>))]
  /\ cmdq' = [cmdq EXCEPT ![i] = Tail(@)]
  /\ UNCHANGED <<now, live, storeVars, subq, expq, ksEnabled, routerVars,
                 calls, expiries, published,
                 pubq,
                 routeVars, httpVars, ackVars, stateVars,
                 conn,
                 resolved>>

\* KEYS presence:user:*
ExecKeys(i) ==
  /\ i \in live /\ HeadIs(cmdq[i], "keys")
  /\ replies' = [replies EXCEPT ![i] =
        Append(@, Reply(Head(cmdq[i]), FALSE, <<>>, <<>>, KeysReply))]
  /\ cmdq' = [cmdq EXCEPT ![i] = Tail(@)]
  /\ UNCHANGED <<now, live, storeVars, subq, expq, ksEnabled, routerVars,
                 calls, expiries, published,
                 pubq,
                 routeVars, httpVars, ackVars, stateVars,
                 conn,
                 resolved>>

\* the publication history counts messages by channel, user and origin
Channels == {"presence:online", "presence:offline", "presence:updates"}

Origins == Conns \cup {"api", "expiry"}

PubKey(m) == <<m.chan, m.userId, m.src>>

PubKeys == Channels \X StoreIds \X Origins

\* PUBLISH channel message: every worker's subscriber holds all three
\* presence channels
ExecPublish(i) ==
  /\ i \in live /\ HeadIs(pubq[i], "publish")
  /\ LET m == Update(Head(pubq[i])) IN
     /\ subq' = [j \in Instances |->
                   IF j \in live THEN Append(subq[j], m) ELSE subq[j]]
     /\ published' = [published EXCEPT ![PubKey(m)] = @ + 1]
  /\ pubq' = [pubq EXCEPT ![i] = Tail(@)]
  /\ UNCHANGED <<now, live, storeVars, cmdq, replies, expq, ksEnabled,
                 routerVars, calls, expiries,
                 routeVars, httpVars, ackVars, stateVars,
                 conn,
                 resolved>>

\* time passes; a key whose TTL has run out is removed and, when expired-key
\* events are configured, announced to every subscribed worker
Tick ==
  /\ now < MaxTime
  /\ now' = now + 1
  /\ LET expired == {u \in StoreIds : pkey[u] > 0 /\ pkey[u] <= now + 1}
         events == SetToSeq({forPresence(u) : u \in expired})
         heard == {j \in live : storeNotify /\ ksEnabled[j]}
     IN  /\ pkey' = [u \in StoreIds |-> IF u \in expired THEN 0 ELSE pkey[u]]
         /\ expq' = [j \in Instances |->
                       IF j \in heard THEN expq[j] \o events ELSE expq[j]]
         /\ expiries' = [u \in StoreIds |->
                           IF u \in expired /\ heard # {}
                           THEN expiries[u] + 1 ELSE expiries[u]]
  /\ UNCHANGED <<live, meta, storeNotify, cmdq, replies, subq, ksEnabled,
                 routerVars, calls, published,
                 pubq,
                 routeVars, httpVars, ackVars, stateVars,
                 conn,
                 resolved>>

NoClient == [conn |-> "none", role |-> "none"]

NoAck == [user |-> <<>>, kind |-> "none", err |-> FALSE, success |-> FALSE]

NewSocket == [st |-> "NEW", user |-> <<>>, inst |-> "none", timestamp |-> 0]

\* a response that is 200 whatever the handler found
ResponseAlwaysOk(req, status, users) ==
  [req |-> req, status |-> 200, users |-> users]

\* an HTTP response: the request it answers, the status and, for 200, users
Response(req, status, users) ==
  [req |-> req, status |-> status, users |-> users]

\* ------------------------------------------------- frames sent to sockets
Frame(type, userId, status, src, users) ==
  [type |-> type, userId |-> userId, status |-> status, src |-> src,
   users |-> users]

\* socket.send(packed) guarded by readyState === OPEN
SendIfOpen(r, k, f) ==
  IF sock[k].st = "OPEN" THEN [r EXCEPT ![k] = Append(@, f)] ELSE r

RECURSIVE Repeat(_, _)
Repeat(f, n) == IF n = 0 THEN <<>> ELSE <<f>> \o Repeat(f, n - 1)

\* Server.broadcastPresenceUpdate: one send per entry of webClients whose
\* socket is OPEN
broadcastPresenceUpdate(i, update) ==
  LET f == Frame("PRESENCE_UPDATE", update.userId, update.status,
                 update.src, <<>>)
      entries(k) == Count(webClients[i], LAMBDA wc : wc.socket = k)
  IN  [k \in Conns |->
         IF sock[k].st = "OPEN" THEN recv[k] \o Repeat(f, entries(k))
         ELSE recv[k]]

\* ---------------------------------------------- callbacks of one worker
\* callback of client.config in enableKeyspaceNotifications
\* a callback that subscribes whatever CONFIG SET answered
OnConfigReplyAlways(i) ==
  /\ i \in live /\ HeadIs(replies[i], "config")
  /\ replies' = [replies EXCEPT ![i] = Tail(@)]
  /\ ksEnabled' = [ksEnabled EXCEPT ![i] = TRUE]
  /\ UNCHANGED <<now, live, storeVars, cmdq, subq, expq, routerVars, calls,
                 expiries, published,
                 pubq,
                 routeVars, httpVars, ackVars, stateVars,
                 conn,
                 resolved>>

OnConfigReply(i) ==
  /\ i \in live /\ HeadIs(replies[i], "config")
  /\ replies' = [replies EXCEPT ![i] = Tail(@)]
  /\ ksEnabled' = [ksEnabled EXCEPT ![i] = ~Head(replies[i]).err]
  /\ UNCHANGED <<now, live, storeVars, cmdq, subq, expq, routerVars, calls,
                 expiries, published,
                 pubq,
                 routeVars, httpVars, ackVars, stateVars,
                 conn,
                 resolved>>

\* a callback that publishes whatever the transaction answered
transitionPublishAlways(p, r) ==
  publishPresenceChange(p, r.user, r.kind, r.ts, r.src)

\* what the callback of multi.exec in setUserOnline and in setUserOffline
\* sends on `publisher`
transitionPublish(p, r) ==
  IF r.err THEN p
  ELSE publishPresenceChange(p, r.user, r.kind, r.ts, r.src)

\* the update it sends to the status mirror
transitionMirror(m, r) ==
  IF r.err \/ ~DYNAMODB_ENABLED THEN m
  ELSE m \cup {[userId |-> r.user, status |-> r.kind]}

\* callback(err, false) or callback(null, true)
transitionCallback(r) ==
  [user |-> r.user, kind |-> r.kind, err |-> r.err, success |-> ~r.err]

\* callback of multi.exec in setUserOnline and in setUserOffline
OnTransitionReply(i) ==
  /\ i \in live
  /\ HeadIs(replies[i], "online") \/ HeadIs(replies[i], "offline")
  /\ pubq' = [pubq EXCEPT ![i] = transitionPublish(@, Head(replies[i]))]
  /\ mirror' = transitionMirror(mirror, Head(replies[i]))
  /\ transitionAck' = [transitionAck EXCEPT ![i] =
                         transitionCallback(Head(replies[i]))]
  /\ replies' = [replies EXCEPT ![i] = Tail(@)]
  /\ UNCHANGED <<now, live, storeVars, cmdq, subq, expq, ksEnabled,
                 routerVars, calls, expiries, published,
                 routeVars, httpVars, stateVars,
                 conn,
                 resolved>>

\* a refresh callback that announces the user online again
refreshHeartbeatReplyPublishes(p, r) ==
  IF r.err THEN p
  ELSE publishPresenceChange(p, r.user, "online", r.ts, "api")

\* what the callback of multi.exec in refreshHeartbeat sends on `publisher`:
\* it logs and calls back, on error and on success
refreshHeartbeatReply(p, r) == p

\* callback of multi.exec in refreshHeartbeat
OnRefreshReply(i) ==
  /\ i \in live /\ HeadIs(replies[i], "refresh")
  /\ pubq' = [pubq EXCEPT ![i] = refreshHeartbeatReply(@, Head(replies[i]))]
  /\ replies' = [replies EXCEPT ![i] = Tail(@)]
  /\ UNCHANGED <<now, live, storeVars, cmdq, subq, expq, ksEnabled,
                 routerVars, calls, expiries, published,
                 routeVars, httpVars, ackVars, stateVars,
                 conn,
                 resolved>>

\* getPresenceSnapshot: users.filter((u) => u.status === "online").length
totalOnline(users) == Count(users, LAMBDA u : u.status = "online")

\* getPresenceSnapshot's callback, then sendPresenceSnapshot's
SnapshotFrame(users) ==
  Frame("PRESENCE_SNAPSHOT", <<>>, "", "", users)

\* callback of multi.exec in getBulkPresenceStatus; the caller is the HTTP
\* handler or sendPresenceSnapshot for socket r.src
OnBulkReply(i) ==
  /\ i \in live /\ HeadIs(replies[i], "bulk")
  /\ LET r == Head(replies[i]) IN
     recv' = IF r.src \in Conns /\ ~r.err
             THEN SendIfOpen(recv, r.src, SnapshotFrame(BulkUsers(r, now)))
             ELSE recv
  /\ LET r == Head(replies[i]) IN
     IF r.src = "http"
     THEN /\ httpRes' = Append(httpRes,
                 IF r.err
                 THEN Response(Head(httpPending[i]), 500, <<>>)
                 ELSE Response(Head(httpPending[i]), 200, BulkUsers(r, now)))
          /\ httpPending' = [httpPending EXCEPT ![i] = Tail(@)]
     ELSE UNCHANGED httpVars
  /\ replies' = [replies EXCEPT ![i] = Tail(@)]
  /\ UNCHANGED <<now, live, storeVars, cmdq, subq, expq, ksEnabled, clients,
                 sockets, webClients, sock, calls, expiries, published,
                 pubq,
                 routeVars, ackVars, stateVars,
                 conn,
                 resolved>>

\* callback of client.keys in getOnlineUsers
OnKeysReply(i) ==
  /\ i \in live /\ HeadIs(replies[i], "keys")
  /\ LET r == Head(replies[i])
         userIds == [n \in 1..Len(r.keys) |-> UserIdOfKey(r.keys[n])]
     IN  /\ cmdq' = [cmdq EXCEPT ![i] =
                       IF r.err THEN @
                       ELSE getBulkPresenceStatus(@, userIds, r.src)]
         /\ recv' = IF ~r.err /\ Len(r.keys) = 0 /\ r.src \in Conns
                    THEN SendIfOpen(recv, r.src, SnapshotFrame(<<>>))
                    ELSE recv
  /\ replies' = [replies EXCEPT ![i] = Tail(@)]
  /\ UNCHANGED <<now, live, storeVars, subq, expq, ksEnabled, clients,
                 sockets, webClients, sock, calls, expiries, published,
                 pubq,
                 routeVars, httpVars, ackVars, stateVars,
                 conn,
                 resolved>>

\* subscriber.on("message"): handlePresenceChange runs every registered
\* callback, here Server.broadcastPresenceUpdate
HandlePubSub(i) ==
  /\ i \in live /\ subq[i] # <<>>
  /\ recv' = broadcastPresenceUpdate(i, Head(subq[i]))
  /\ subq' = [subq EXCEPT ![i] = Tail(@)]
  /\ UNCHANGED <<now, live, storeVars, cmdq, replies, expq, ksEnabled,
                 clients, sockets, webClients, sock, calls, expiries,
                 published,
                 pubq,
                 routeVars, httpVars, ackVars, stateVars,
                 conn,
                 resolved>>

\* an expiry handler that only logs
handleTTLExpiryLogOnly(q, userId) == q

\* keyspaceSubscriber.on("message"), then handleTTLExpiry
handleTTLExpiry(q, userId) == setUserOffline(q, userId, "expiry")

HandleExpired(i) ==
  /\ i \in live /\ expq[i] # <<>>
  /\ LET expiredKey == Head(expq[i]) IN
     cmdq' = [cmdq EXCEPT ![i] =
                IF IsPresenceKey(expiredKey)
                THEN handleTTLExpiry(@, UserIdOfKey(expiredKey))
                ELSE @]
  /\ expq' = [expq EXCEPT ![i] = Tail(@)]
  /\ UNCHANGED <<now, live, storeVars, replies, subq, ksEnabled, routerVars,
                 calls, expiries, published,
                 pubq,
                 routeVars, httpVars, ackVars, stateVars,
                 conn,
                 resolved>>

\* ------------------------------- presence operations called on a worker
CallSetUserOnline(i, u) ==
  /\ i \in live /\ calls.api < MaxCalls
  /\ calls' = [calls EXCEPT !.api = @ + 1]
  /\ cmdq' = [cmdq EXCEPT ![i] = setUserOnline(@, u, "api")]
  /\ UNCHANGED <<now, live, storeVars, replies, subq, expq, ksEnabled,
                 routerVars, expiries, published,
                 pubq,
                 routeVars, httpVars, ackVars, stateVars,
                 conn,
                 resolved>>

CallRefreshHeartbeat(i, u) ==
  /\ i \in live /\ calls.api < MaxCalls
  /\ calls' = [calls EXCEPT !.api = @ + 1]
  /\ cmdq' = [cmdq EXCEPT ![i] = refreshHeartbeat(@, u)]
  /\ UNCHANGED <<now, live, storeVars, replies, subq, expq, ksEnabled,
                 routerVars, expiries, published,
                 pubq,
                 routeVars, httpVars, ackVars, stateVars,
                 conn,
                 resolved>>

CallSetUserOffline(i, u) ==
  /\ i \in live /\ calls.api < MaxCalls
  /\ calls' = [calls EXCEPT !.api = @ + 1]
  /\ cmdq' = [cmdq EXCEPT ![i] = setUserOffline(@, u, "api")]
  /\ UNCHANGED <<now, live, storeVars, replies, subq, expq, ksEnabled,
                 routerVars, expiries, published,
                 pubq,
                 routeVars, httpVars, ackVars, stateVars,
                 conn,
                 resolved>>

\* ------------------------------------------------------------- Client
\* Client.registerSocket: a connection attached under another handshake key
\* is sent LOGIN_DUPLICATED and closed, then the new connection is adopted
Displaced(i, id, key) ==
  IF clients[i][id].conn # "none" /\ clients[i][id].conn # key
  THEN {clients[i][id].conn} ELSE {}

registerSocketFrames(i, id, key) ==
  [k \in Conns |->
     IF k \in Displaced(i, id, key) /\ sock[k].st = "OPEN"
     THEN Append(recv[k], Frame("LOGIN_DUPLICATED", id, "", "", <<>>))
     ELSE recv[k]]

registerSocketSockets(i, id, key) ==
  [k \in Conns |->
     IF k = key
     THEN [st |-> "OPEN", user |-> id, inst |-> i, timestamp |-> now]
     ELSE IF k \in Displaced(i, id, key) /\ sock[k].st = "OPEN"
     THEN [sock[k] EXCEPT !.st = "CLOSING"]
     ELSE sock[k]]

\* --------------------------------------------------------- Connection
\* the socket events the Connection constructor adds a listener for
Handlers == {"close", "error", "message", "ping", "pong"}

\* a socket no Connection was constructed for
NoConnection ==
  [listeners |-> {}, unpacking |-> <<>>, closes |-> 0, late |-> {}]

\* new Connection(...): the five listeners are attached, nothing is being
\* decoded, nothing was emitted
Connection == [NoConnection EXCEPT !.listeners = Handlers]

\* this.emit(event) of a Connection: close events are counted, and an event
\* emitted after a close event is recorded in late
emit(c, event) ==
  [c EXCEPT !.closes = IF event = "close" THEN @ + 1 ELSE @,
            !.late = IF c.closes > 0 THEN @ \cup {event} ELSE @]

\* Connection.handleSocketClose: removeListener five times, then emit close
handleSocketClose(c) == emit([c EXCEPT !.listeners = {}], "close")

\* the Client emits unregister when the connection it has attached closes
EmitsUnregister(i, id, key) == clients[i][id].conn = key

\* ------------------------------------------------------------- Server
\* a registration that never marks a mobile client online
registerClientPresenceNoOnline(q, id, key, role) ==
  IF role = "web" \/ role = "dashboard"
  THEN getOnlineUsers(q, key)
  ELSE q

\* the presence part of Server.registerClient
registerClientPresence(q, id, key, role) ==
  IF role = "web" \/ role = "dashboard"
  THEN getOnlineUsers(q, key)
  ELSE setUserOnline(q, id, key)

\* a registration that adds every socket to the broadcast list
registerClientWebAll(w, id, key, role) ==
  Append(w, [userId |-> id, socket |-> key, role |-> role])

\* the broadcast list part of Server.registerClient
registerClientWeb(w, id, key, role) ==
  IF role = "web" \/ role = "dashboard"
  THEN Append(w, [userId |-> id, socket |-> key, role |-> role])
  ELSE w

\* a registration that records the socket only when it creates the Client
registerClientNewOnly(i, key, id, role) ==
  /\ i \in live /\ sock[key].st = "NEW"
  /\ recv' = registerSocketFrames(i, id, key)
  /\ sock' = registerSocketSockets(i, id, key)
  /\ clients' = [clients EXCEPT ![i][id] = [conn |-> key, role |-> role]]
  /\ sockets' = [sockets EXCEPT ![i][id] =
                   IF clients[i][id] = NoClient THEN key ELSE @]
  /\ webClients' = [webClients EXCEPT ![i] =
                      registerClientWeb(@, id, key, role)]
  /\ cmdq' = [cmdq EXCEPT ![i] = registerClientPresence(@, id, key, role)]
  /\ conn' = [conn EXCEPT ![key] = Connection]
  /\ UNCHANGED <<now, live, storeVars, replies, subq, expq, ksEnabled,
                 calls, expiries, published,
                 pubq,
                 routeVars, httpVars, ackVars, stateVars,
                 resolved>>

\* handleWssConnection -> registerClient for a new socket with handshake
\* key `key`, resolved user `id` and role `role`
registerClient(i, key, id, role) ==
  /\ i \in live /\ sock[key].st = "NEW"
  /\ recv' = registerSocketFrames(i, id, key)
  /\ sock' = registerSocketSockets(i, id, key)
  /\ clients' = [clients EXCEPT ![i][id] = [conn |-> key, role |-> role]]
  /\ sockets' = [sockets EXCEPT ![i][id] = key]
  /\ webClients' = [webClients EXCEPT ![i] =
                      registerClientWeb(@, id, key, role)]
  /\ cmdq' = [cmdq EXCEPT ![i] = registerClientPresence(@, id, key, role)]
  /\ conn' = [conn EXCEPT ![key] = Connection]
  /\ UNCHANGED <<now, live, storeVars, replies, subq, expq, ksEnabled,
                 calls, expiries, published,
                 pubq,
                 routeVars, httpVars, ackVars, stateVars,
                 resolved>>

\* an unregister that marks offline on the web branch instead
unregisterPresenceWeb(q, clientId, key, role) ==
  IF role = "web" THEN setUserOffline(q, clientId, key) ELSE q

\* the presence part of Server.handleClientUnregister
unregisterPresence(q, clientId, key, role) ==
  IF role = "mobile" THEN setUserOffline(q, clientId, key) ELSE q

unregisterWeb(w, clientId, role) ==
  IF role = "web"
  THEN SelectSeq(w, LAMBDA wc : wc.userId # clientId)
  ELSE w

\* ------------------------------------------------------- group state
StCmd(kind, user, group) == [kind |-> kind, user |-> user, group |-> group]

StReply(c, err, groups, fromId) ==
  [kind |-> c.kind, user |-> c.user, group |-> c.group, err |-> err,
   groups |-> groups, fromId |-> fromId]

\* States.getGroupsOfUser: every user is a member of every group
groupsOfUser(u) == SetToSeq(Groups)

\* the States calls Server.handleClientUnregister starts with
unregisterStates(q, clientId) ==
  q \o <<StCmd("removeCurrentMessageOfUser", clientId, ""),
         StCmd("getGroupsOfUser", clientId, "")>>

\* the Store executes the States command at the head of the queue
StatesExec(i) ==
  /\ i \in live /\ stq[i] # <<>>
  /\ LET c == Head(stq[i]) IN
     /\ current' =
          IF c.kind = "removeCurrentMessageOfUser"
          THEN [current EXCEPT !.user[c.user] = FALSE]
          ELSE IF c.kind = "removeCurrentMessageOfGroup"
          THEN [current EXCEPT !.group[c.group] = <<>>]
          ELSE current
     /\ stReplies' = [stReplies EXCEPT ![i] =
          IF c.kind = "getGroupsOfUser"
          THEN Append(@, StReply(c, FALSE, groupsOfUser(c.user), <<>>))
          ELSE IF c.kind = "getCurrentMessageOfGroup"
          THEN Append(@, StReply(c, FALSE, <<>>, current.group[c.group]))
          ELSE @]
  /\ stq' = [stq EXCEPT ![i] = Tail(@)]
  /\ UNCHANGED <<now, live, storeVars, wireVars, ksEnabled, routerVars,
                 calls, expiries, published, routeVars, httpVars, ackVars,
                 conn,
                 resolved>>

\* currentMsg && currentMsg.fromId.toString() === clientId.toString()
unregisterGroupHeld(r) == r.fromId # <<>> /\ r.fromId = r.user

\* the callbacks in Server.handleClientUnregister of getGroupsOfUser and of
\* getCurrentMessageOfGroup
OnStatesReply(i) ==
  /\ i \in live /\ stReplies[i] # <<>>
  /\ LET r == Head(stReplies[i]) IN
     stq' = [stq EXCEPT ![i] =
        IF r.kind = "getGroupsOfUser"
        THEN @ \o [n \in 1..Len(r.groups) |->
                     StCmd("getCurrentMessageOfGroup", r.user, r.groups[n])]
        ELSE IF unregisterGroupHeld(r)
        THEN Append(@, StCmd("removeCurrentMessageOfGroup", r.user, r.group))
        ELSE @]
  /\ stReplies' = [stReplies EXCEPT ![i] = Tail(@)]
  /\ UNCHANGED <<now, live, storeVars, wireVars, ksEnabled, routerVars,
                 calls, expiries, published, routeVars, httpVars, ackVars,
                 current,
                 conn,
                 resolved>>

\* a registered user starts an audio turn in group g: setCurrentSpeaker
\* succeeds unless another user holds the lock
TakeTurn(key, g) ==
  /\ sock[key].st = "OPEN"
  /\ clients[sock[key].inst][sock[key].user].conn = key
  /\ calls.turn < MaxTurns
  /\ current.group[g] \in {<<>>, sock[key].user}
  /\ calls' = [calls EXCEPT !.turn = @ + 1]
  /\ current' = [current EXCEPT !.group[g] = sock[key].user,
                                !.user[sock[key].user] = TRUE]
  /\ UNCHANGED <<now, live, storeVars, wireVars, ksEnabled, routerVars,
                 expiries, published, routeVars, httpVars, ackVars,
                 stq, stReplies,
                 conn,
                 resolved>>

\* the lock of group g ends: its TTL ran out or its turn ended
EndTurn(g) ==
  /\ current.group[g] # <<>>
  /\ current' = [current EXCEPT !.group[g] = <<>>,
                                !.user[current.group[g]] = FALSE]
  /\ UNCHANGED <<now, live, storeVars, wireVars, ksEnabled, routerVars,
                 calls, expiries, published, routeVars, httpVars, ackVars,
                 stq, stReplies,
                 conn,
                 resolved>>

\* the socket's close event: Connection.handleSocketClose emits close, the
\* Client emits unregister when that connection is the attached one, and
\* Server.handleClientUnregister runs
SocketClose(key) ==
  /\ sock[key].st \in {"OPEN", "CLOSING"}
  /\ sock' = [sock EXCEPT ![key].st = "CLOSED"]
  /\ conn' = [conn EXCEPT ![key] = handleSocketClose(@)]
  /\ LET i == sock[key].inst
         id == sock[key].user
         role == clients[i][id].role
     IN  IF EmitsUnregister(i, id, key) /\ clients[i][id] # NoClient
         THEN /\ cmdq' = [cmdq EXCEPT ![i] =
                            unregisterPresence(@, id, key, role)]
              /\ webClients' = [webClients EXCEPT ![i] =
                                  unregisterWeb(@, id, role)]
              /\ clients' = [clients EXCEPT ![i][id] = NoClient]
              /\ sockets' = [sockets EXCEPT ![i][id] = "none"]
              /\ stq' = [stq EXCEPT ![i] = unregisterStates(@, id)]
         ELSE UNCHANGED <<cmdq, webClients, clients, sockets, stq>>
  /\ UNCHANGED <<now, live, storeVars, replies, subq, expq, ksEnabled, recv,
                 calls, expiries, published,
                 pubq,
                 routeVars, httpVars, ackVars, current, stReplies,
                 resolved>>

\* a HEARTBEAT frame arrives on an attached connection:
\* Server.handleClientMessage -> handleHeartbeat
Heartbeat(key, fromId) ==
  /\ sock[key].st = "OPEN"
  /\ clients[sock[key].inst][sock[key].user].conn = key
  /\ calls.heartbeat < MaxHeartbeats
  /\ calls' = [calls EXCEPT !.heartbeat = @ + 1]
  /\ cmdq' = [cmdq EXCEPT ![sock[key].inst] = refreshHeartbeat(@, fromId)]
  /\ UNCHANGED <<now, live, storeVars, replies, subq, expq, ksEnabled,
                 routerVars, expiries, published,
                 pubq,
                 routeVars, httpVars, ackVars, stateVars,
                 conn,
                 resolved>>

\* the Client's handler of its Connection's pong event: a liveness pong of
\* a mobile connection extends the TTL
clientPong(q, id, role) ==
  IF role = "mobile" THEN refreshHeartbeat(q, id) ELSE q

\* a control-pong arrives on an attached connection, in answer to the ping
\* the router sends every PING_INTERVAL: Connection.handleSocketPong records
\* the time and emits pong
Pong(key) ==
  /\ sock[key].st = "OPEN"
  /\ clients[sock[key].inst][sock[key].user].conn = key
  /\ sock[key].timestamp + PING_INTERVAL <= now
  /\ "pong" \in conn[key].listeners
  /\ sock' = [sock EXCEPT ![key].timestamp = now]
  /\ conn' = [conn EXCEPT ![key] = emit(@, "pong")]
  /\ cmdq' = [cmdq EXCEPT ![sock[key].inst] =
                clientPong(@, sock[key].user,
                           clients[sock[key].inst][sock[key].user].role)]
  /\ UNCHANGED <<now, live, storeVars, replies, subq, expq, ksEnabled,
                 clients, sockets, webClients, recv, calls, expiries,
                 published, pubq,
                 routeVars, httpVars, ackVars, stateVars,
                 resolved>>

\* POST /api/presence/status with userIds = ids, an array: the request is
\* numbered calls.http + 1; getBulkPresenceStatus runs the callback at once
\* for an empty array and on the transaction's reply otherwise
HttpBulkStatus(i, ids) ==
  /\ i \in live /\ calls.http < MaxQueries
  /\ calls' = [calls EXCEPT !.http = @ + 1]
  /\ cmdq' = [cmdq EXCEPT ![i] = getBulkPresenceStatus(@, ids, "http")]
  /\ IF ~PRESENCE_ENABLED \/ Len(ids) = 0
     THEN /\ httpRes' = Append(httpRes, Response(calls.http + 1, 200, <<>>))
          /\ UNCHANGED httpPending
     ELSE /\ httpPending' = [httpPending EXCEPT ![i] =
                               Append(@, calls.http + 1)]
          /\ UNCHANGED httpRes
  /\ UNCHANGED <<now, live, storeVars, replies, subq, expq, ksEnabled,
                 routerVars, expiries, published,
                 pubq,
                 routeVars, ackVars, stateVars,
                 conn,
                 resolved>>

\* the bodies a POST can carry: text that is not JSON, JSON whose userIds
\* is not an array, or JSON with userIds an array
Body(kind, userIds) == [kind |-> kind, userIds |-> userIds]

Bodies ==
  {Body("malformed", <<>>), Body("notArray", <<>>)} \cup
  {Body("array", ids) : ids \in {<<>>, <<<<"A">>>>, <<<<"A">>, <<"B">>>>}}

\* req.on("end") of POST /api/presence/status
HttpPost(i, body) ==
  IF body.kind = "array"
  THEN HttpBulkStatus(i, body.userIds)
  ELSE /\ i \in live /\ calls.http < MaxQueries
       /\ calls' = [calls EXCEPT !.http = @ + 1]
       /\ httpRes' = Append(httpRes, Response(calls.http + 1, 400, <<>>))
       /\ UNCHANGED <<now, live, storeVars, wireVars, ksEnabled, routerVars,
                      expiries, published, routeVars, httpPending, ackVars, stateVars,
                 conn,
                 resolved>>

\* ---------------------------------------------------------- handshake
\* config.useAuthentication: config.ts sets no such field, so that it is
\* never the value false
useAuthentication == TRUE

\* a token as getUserFromToken sees it: whether the handshake carries one,
\* what its payload segment decodes to without verification ("claim": a
\* string or an object with a user-id claim, uid; "noClaim": an object
\* without one; "empty": a string that trimQuotes leaves empty; "absent":
\* fewer than two segments or no JSON), whether jwt.decode
\* accepts its signature, and the id the raw token text stands for
Token(present, payload, uid, raw, sigValid) ==
  [present |-> present, payload |-> payload, uid |-> uid, raw |-> raw,
   sigValid |-> sigValid]

NoToken == Token(FALSE, "absent", <<>>, <<>>, FALSE)

Tokens ==
  {NoToken} \cup
  {Token(TRUE, p, <<"A">>, <<"B">>, v) :
     p \in {"claim", "noClaim", "absent"}, v \in BOOLEAN}

\* ------------------------------------------- token payloads, in detail
\* strings are sequences of characters; Quote is the double quote
Quote == "\""

RECURSIVE trimLeft(_)
trimLeft(val) ==
  IF val # <<>> /\ Head(val) = Quote THEN trimLeft(Tail(val)) ELSE val

RECURSIVE trimRight(_)
trimRight(val) ==
  IF val # <<>> /\ val[Len(val)] = Quote
  THEN trimRight(SubSeq(val, 1, Len(val) - 1)) ELSE val

\* trimQuotes: val.replace(/^"+|"+$/g, "")
trimQuotes(val) == trimRight(trimLeft(val))

\* the claims claimsUserId looks at, in its order
ClaimNames == <<"uid", "user_id", "TELENET_userId", "userId", "sub", "id">>

\* a claimsUserId that takes the first claim the object has, whatever its
\* value
RECURSIVE firstPresent(_, _)
firstPresent(val, n) ==
  IF n > Len(ClaimNames) THEN <<>>
  ELSE IF ClaimNames[n] \in DOMAIN val THEN val[ClaimNames[n]]
  ELSE firstPresent(val, n + 1)

claimsUserIdPresent(val) == firstPresent(val, 1)

\* val.uid || val.user_id || ... || val.id: the first claim whose value
\* is truthy; an object is a function from the claims it has to their
\* values, and null is <<>>
RECURSIVE firstTruthy(_, _)
firstTruthy(val, n) ==
  IF n > Len(ClaimNames) THEN <<>>
  ELSE IF ClaimNames[n] \in DOMAIN val /\ val[ClaimNames[n]] # <<>>
  THEN val[ClaimNames[n]]
  ELSE firstTruthy(val, n + 1)

claimsUserId(val) == firstTruthy(val, 1)

\* what the second segment of a token decodes to: nothing ("absent": fewer
\* than two segments), text that is not JSON ("text"), a JSON string
\* ("string"), a JSON object ("object") or another JSON value ("scalar",
\* str its String())
Payload(kind, str, obj) == [kind |-> kind, str |-> str, obj |-> obj]

NoObject == [c \in {} |-> <<>>]

\* the body of fallbackDecodePayload, on the decoded payload
decodePayload(p) ==
  IF p.kind = "absent" THEN <<>>
  ELSE IF p.kind \in {"text", "string"} THEN trimQuotes(p.str)
  ELSE IF p.kind = "object" THEN claimsUserId(p.obj)
  ELSE p.str

\* the token getUserFromToken is called with: the payload, the id the raw
\* token text stands for, and whether jwt.decode accepts the signature
Jwt(p, raw, sigValid) == [payload |-> p, raw |-> raw, sigValid |-> sigValid]

\* the same token as Token describes it
TokenOfJwt(jwt) ==
  LET p == jwt.payload
      extracted == decodePayload(p)
      kind == IF extracted # <<>> THEN "claim"
              ELSE IF p.kind = "string" THEN "empty"
              ELSE IF p.kind = "object" THEN "noClaim"
              ELSE "absent"
  IN  Token(TRUE, kind, extracted, jwt.raw,
            jwt.sigValid /\ p.kind \in {"string", "object", "scalar"})

\* nothing resolved yet
NoUser ==
  [called |-> FALSE,
   token |-> Jwt(Payload("absent", <<>>, NoObject), <<>>, FALSE),
   uid |-> <<>>]

\* fallbackDecodePayload: null is <<>>
fallbackDecodePayload(token) ==
  IF token.payload = "claim" THEN token.uid ELSE <<>>

\* Server.getUserFromToken: the promise it returns
getUserFromToken(token) ==
  LET extractedFromPayload == fallbackDecodePayload(token)
      userId ==
        IF extractedFromPayload # <<>> THEN extractedFromPayload
        ELSE IF useAuthentication = FALSE THEN token.raw
        ELSE IF token.sigValid
        THEN \* jwt.decode succeeded: a string that trimQuotes leaves
             \* empty, or an object without a claim
             IF token.payload = "empty" THEN <<>> ELSE token.raw
        ELSE \* jwt.decode threw: payload fallback, else the raw token
             IF extractedFromPayload # <<>> THEN extractedFromPayload
             ELSE token.raw
  IN  [rejected |-> FALSE, uid |-> userId]

\* a call of Server.getUserFromToken with the token jwt: the promise
\* resolves
ResolveToken(jwt) ==
  /\ resolved' = [called |-> TRUE, token |-> jwt,
                  uid |-> getUserFromToken(TokenOfJwt(jwt)).uid]
  /\ UNCHANGED <<now, live, storeVars, wireVars, ksEnabled, routerVars,
                 calls, expiries, published, routeVars, httpVars, ackVars,
                 stateVars, conn>>

\* Server.verifyClient: the status the handshake is answered with
verifyClient(token) ==
  IF ~token.present THEN 401
  ELSE IF getUserFromToken(token).rejected THEN 401
  ELSE 200

\* ------------------------------------------------------------ routing
\* an id as a frame or the Store carries it: a number or a string
IdForms == {"number", "string"}

Id(form, str) == [form |-> form, str |-> str]

\* id.toString(), which is also the property name the id selects
toString(id) == id.str

\* a property name every object literal inherits
ObjectPrototypeKeys == {<<"constructor">>}

RouteIds == {Id(f, u) : f \in IdForms, u \in Users \cup ObjectPrototypeKeys}

\* what a lookup in this.clients finds through the prototype chain
Inherited == [conn |-> "none", role |-> "inherited"]

\* this.clients.hasOwnProperty(userId)
hasOwnProperty(i, id) ==
  toString(id) \in Users /\ clients[i][toString(id)] # NoClient

\* this.clients[id]
clientsGet(i, id) ==
  IF hasOwnProperty(i, id) THEN clients[i][toString(id)]
  ELSE IF toString(id) \in ObjectPrototypeKeys THEN Inherited
  ELSE NoClient

\* the membership lists States.getUsersInsideGroup can answer with: the
\* members of a set, each id in either form
Injective(l) ==
  \A m \in 1..Len(l), n \in 1..Len(l) :
    toString(l[m]) = toString(l[n]) => m = n

MemberLists ==
  {l \in UNION {[1..n -> RouteIds] : n \in 0..MaxMembers} : Injective(l)}

\* Client.send: the data goes to the attached Connection
clientSend(r, i, id, data) ==
  SendIfOpen(r, clients[i][toString(id)].conn, data)

\* a delivery that writes the data twice
sendDataToUserTwice(r, i, data, userId) ==
  IF hasOwnProperty(i, userId)
  THEN [k \in Conns |->
          clientSend(clientSend(r, i, userId, data), i, userId, data)[k]]
  ELSE r

\* Server.sendDataToUser
sendDataToUser(r, i, data, userId) ==
  IF hasOwnProperty(i, userId) THEN clientSend(r, i, userId, data) ELSE r

\* a sender test that compares the ids without converting them
isSenderStrict(recipientId, userId) == recipientId = userId

\* recipientId.toString() === userId.toString()
isSender(recipientId, userId) == toString(recipientId) = toString(userId)

\* the loop of Server.sendDataFromUserToGroup over the members
RECURSIVE sendDataFromUserToGroup(_, _, _, _, _, _)
sendDataFromUserToGroup(r, i, data, userId, userIds, echo) ==
  IF userIds = <<>> THEN r
  ELSE LET recipientId == Head(userIds)
           r1 == IF ~echo /\ isSender(recipientId, userId) THEN r
                 ELSE sendDataToUser(r, i, data, recipientId)
       IN  sendDataFromUserToGroup(r1, i, data, userId, Tail(userIds), echo)

\* a delivery that asks the Store whether the recipient is online
sendMessageToUserIfOnline(r, i, toId, data) ==
  IF hasOwnProperty(i, toId) /\ Exists(toString(toId))
  THEN clientSend(r, i, toId, data)
  ELSE r

\* Server.sendMessageToUser: the write, and whether client.send is called
\* on a value that is not a Client
sendMessageToUser(r, i, toId, data) ==
  LET client == clientsGet(i, toId) IN
  IF client = NoClient \/ client = Inherited THEN r
  ELSE clientSend(r, i, toId, data)

sendMessageToUserThrows(i, toId) == clientsGet(i, toId) = Inherited

Packed(msgType, channelType, fromId, toId, key) ==
  Frame(msgType, toString(fromId), channelType, key, <<toId>>)

\* a frame on the PRIVATE channel arrives on an attached connection:
\* Server.handleClientMessage -> sendMessageToUser
PrivateMessage(key, toId) ==
  /\ sock[key].st = "OPEN"
  /\ clients[sock[key].inst][sock[key].user].conn = key
  /\ calls.send < MaxSends
  /\ calls' = [calls EXCEPT !.send = @ + 1]
  /\ LET i == sock[key].inst
         data == Packed("AUDIO", "PRIVATE", Id("string", sock[key].user),
                        toId, key)
     IN  /\ recv' = sendMessageToUser(recv, i, toId, data)
         /\ uncaught' = [uncaught EXCEPT ![i] =
                           @ \/ sendMessageToUserThrows(i, toId)]
  /\ UNCHANGED <<now, live, storeVars, wireVars, ksEnabled, clients, sockets,
                 webClients, sock, expiries, published, lookups,
                 httpVars, ackVars, stateVars,
                 conn,
                 resolved>>

\* a frame on the GROUP channel, neither CONNECTION nor HEARTBEAT, arrives on
\* an attached connection: Server.handleClientMessage -> sendMessageToGroup
\* -> sendDataFromUserToGroup, up to the call of States.getUsersInsideGroup
GroupMessage(key, fromId, groupId) ==
  /\ sock[key].st = "OPEN"
  /\ clients[sock[key].inst][sock[key].user].conn = key
  /\ calls.send < MaxSends
  /\ calls' = [calls EXCEPT !.send = @ + 1]
  /\ lookups' = [lookups EXCEPT ![sock[key].inst] =
        Append(@, [data |-> Packed("AUDIO", "GROUP", fromId,
                                   Id("string", <<groupId>>), key),
                   userId |-> fromId, groupId |-> groupId, echo |-> FALSE])]
  /\ UNCHANGED <<now, live, storeVars, wireVars, ksEnabled, routerVars,
                 expiries, published, uncaught,
                 httpVars, ackVars, stateVars,
                 conn,
                 resolved>>

\* callback of States.getUsersInsideGroup answering with an error (err) or
\* with userIds
GroupReply(i, err, userIds) ==
  /\ i \in live /\ lookups[i] # <<>>
  /\ LET l == Head(lookups[i]) IN
     recv' = IF err \/ Len(userIds) <= 0 THEN recv
             ELSE sendDataFromUserToGroup(recv, i, l.data, l.userId,
                                          userIds, l.echo)
  /\ lookups' = [lookups EXCEPT ![i] = Tail(@)]
  /\ UNCHANGED <<now, live, storeVars, wireVars, ksEnabled, clients, sockets,
                 webClients, sock, calls, expiries, published, uncaught,
                 httpVars, ackVars, stateVars,
                 conn,
                 resolved>>

\* a CONNECTION frame on the GROUP channel: handleConnectionMessage reads
\* the groups of the sender and logs them
ConnectionMessage(key) ==
  /\ sock[key].st = "OPEN"
  /\ clients[sock[key].inst][sock[key].user].conn = key
  /\ calls.send < MaxSends
  /\ calls' = [calls EXCEPT !.send = @ + 1]
  /\ UNCHANGED <<now, live, storeVars, wireVars, ksEnabled, routerVars,
                 expiries, published, routeVars, httpVars, ackVars,
                 stateVars,
                 conn,
                 resolved>>

\* the frames a client can send: IMessage
Msg(messageType, channelType, fromId, toId) ==
  [messageType |-> messageType, channelType |-> channelType,
   fromId |-> fromId, toId |-> toId]

Msgs ==
  {Msg(t, c, f, <<"B">>) :
     t \in {"HEARTBEAT", "CONNECTION", "AUDIO"},
     c \in {"GROUP", "PRIVATE"}, f \in Users}

\* a dispatch that looks at the channel before the message type
handleClientMessageByChannel(msg) ==
  IF msg.channelType = "GROUP"
  THEN IF msg.messageType = "CONNECTION" THEN "handleConnectionMessage"
       ELSE "sendMessageToGroup"
  ELSE IF msg.messageType = "HEARTBEAT" THEN "handleHeartbeat"
  ELSE "sendMessageToUser"

\* the branch Server.handleClientMessage takes
handleClientMessageBranch(msg) ==
  IF msg.messageType = "HEARTBEAT" THEN "handleHeartbeat"
  ELSE IF msg.channelType = "GROUP"
  THEN IF msg.messageType = "CONNECTION" THEN "handleConnectionMessage"
       ELSE "sendMessageToGroup"
  ELSE "sendMessageToUser"

\* the Client of the connection `key` emits message: handleClientMessage
ClientMessage(key, msg) ==
  LET branch == handleClientMessageBranch(msg) IN
  IF branch = "handleHeartbeat" THEN Heartbeat(key, msg.fromId)
  ELSE IF branch = "handleConnectionMessage" THEN ConnectionMessage(key)
  ELSE IF branch = "sendMessageToGroup"
  THEN GroupMessage(key, Id("string", msg.fromId), msg.toId[1])
  ELSE PrivateMessage(key, Id("string", msg.toId))

\* the largest payload of a control frame, in bytes
ControlFrameLimit == 125

\* a string of n one-byte characters
Bytes(n) == [k \in 1..n |-> "x"]

\* Buffer.from(userId) for the ids of the model: A is 125 bytes long, every
\* other id (a raw token used as id) 126
Utf8(userId) ==
  IF userId = <<"A">> THEN Bytes(ControlFrameLimit)
  ELSE Bytes(ControlFrameLimit + 1)

\* a control frame written to a socket
ControlFrame(type, payload) == Frame(type, payload, "", "control", <<>>)

\* the payload Connection.handleSocketPing gives to socket.pong
pongPayload(userId) == userId

\* a control-ping arrives on a connection: Connection.handleSocketPing
\* records the time and, on an OPEN socket, calls socket.pong; for a payload
\* above the control-frame limit the socket library either throws (caught
\* and logged) or writes the frame as given
Ping(key, throws) ==
  /\ "ping" \in conn[key].listeners
  /\ calls.ping < MaxCalls
  /\ LET payload == pongPayload(Utf8(sock[key].user)) IN
       /\ throws => Len(payload) > ControlFrameLimit
       /\ recv' = IF throws THEN recv
                  ELSE SendIfOpen(recv, key, ControlFrame("pong", payload))
  /\ calls' = [calls EXCEPT !.ping = @ + 1]
  /\ sock' = [sock EXCEPT ![key].timestamp = now]
  /\ UNCHANGED <<now, live, storeVars, wireVars, ksEnabled, clients, sockets,
                 webClients, expiries, published, routeVars, httpVars,
                 ackVars, stateVars, conn,
                 resolved>>

\* the HEARTBEAT frames a client can send
HeartbeatFrames == {m \in Msgs : m.messageType = "HEARTBEAT"}

\* the socket's message event for a frame that packer.unpack has not
\* decoded when Connection.handleSocketMessage returns
SocketMessage(key, msg) ==
  /\ sock[key].st = "OPEN" /\ "message" \in conn[key].listeners
  /\ calls.heartbeat < MaxHeartbeats
  /\ calls' = [calls EXCEPT !.heartbeat = @ + 1]
  /\ conn' = [conn EXCEPT ![key].unpacking = Append(@, msg)]
  /\ UNCHANGED <<now, live, storeVars, wireVars, ksEnabled, routerVars,
                 expiries, published, routeVars, httpVars, ackVars,
                 stateVars,
                 resolved>>

\* the callback handleSocketMessage gave to packer.unpack runs, with an
\* error or with the decoded frame: the frame is emitted as message, and the
\* Client that has the Connection attached hands it to
\* Server.handleClientMessage
UnpackCallback(key, err) ==
  /\ conn[key].unpacking # <<>>
  /\ LET msg == Head(conn[key].unpacking)
         c == [conn[key] EXCEPT !.unpacking = Tail(@)]
         i == sock[key].inst
     IN  IF err
         THEN conn' = [conn EXCEPT ![key] = c] /\ UNCHANGED cmdq
         ELSE /\ conn' = [conn EXCEPT ![key] = emit(c, "message")]
              /\ cmdq' = [cmdq EXCEPT ![i] =
                            IF clients[i][sock[key].user].conn = key
                            THEN refreshHeartbeat(@, msg.fromId) ELSE @]
  /\ UNCHANGED <<now, live, storeVars, pubq, replies, subq, expq, ksEnabled,
                 routerVars, calls, expiries, published, routeVars, httpVars,
                 ackVars, stateVars,
                 resolved>>

\* a handshake with `token` arrives for a new socket: verifyClient, then
\* handleWssConnection -> getUserFromToken -> registerClient
Handshake(i, key, token) ==
  IF verifyClient(token) = 401
  THEN /\ i \in live /\ sock[key].st = "NEW"
       /\ sock' = [sock EXCEPT ![key].st = "REJECTED"]
       /\ UNCHANGED <<now, live, storeVars, wireVars, ksEnabled, clients,
                      sockets, webClients, recv, calls, expiries, published,
                      routeVars, httpVars, ackVars, stateVars,
                 conn,
                 resolved>>
  ELSE registerClient(i, key, getUserFromToken(token).uid, "mobile")

\* ------------------------------------------------------- initial states
\* the state after the workers in W constructed their PresenceManager and
\* Server; started tells whether CONFIG SET has been answered (TRUE) or is
\* still in flight (FALSE)
InitWith(W, started) ==
  /\ now = 1
  /\ live = W
  /\ pkey = [u \in StoreIds |-> 0]
  /\ meta = [u \in StoreIds |-> NoMeta]
  /\ storeNotify = started
  /\ cmdq = [i \in Instances |->
               IF i \in W /\ PRESENCE_ENABLED /\ ~started
               THEN <<Cmd("config", <<>>, 0, "init")>> ELSE <<>>]
  /\ pubq = [i \in Instances |-> <<>>]
  /\ replies = [i \in Instances |-> <<>>]
  /\ subq = [i \in Instances |-> <<>>]
  /\ expq = [i \in Instances |-> <<>>]
  /\ ksEnabled = [i \in Instances |-> started /\ i \in W]
  /\ clients = [i \in Instances |-> [u \in Users |-> NoClient]]
  /\ sockets = [i \in Instances |-> [u \in Users |-> "none"]]
  /\ webClients = [i \in Instances |-> <<>>]
  /\ sock = [k \in Conns |-> NewSocket]
  /\ recv = [k \in Conns |-> <<>>]
  /\ calls = [api |-> 0, heartbeat |-> 0, http |-> 0, send |-> 0, turn |-> 0,
              ping |-> 0]
  /\ lookups = [i \in Instances |-> <<>>]
  /\ uncaught = [i \in Instances |-> FALSE]
  /\ httpPending = [i \in Instances |-> <<>>]
  /\ httpRes = <<>>
  /\ mirror = {}
  /\ transitionAck = [i \in Instances |-> NoAck]
  /\ current = [group |-> [g \in Groups |-> <<>>],
                user |-> [u \in Users |-> FALSE]]
  /\ stq = [i \in Instances |-> <<>>]
  /\ stReplies = [i \in Instances |-> <<>>]
  /\ conn = [k \in Conns |-> NoConnection]
  /\ resolved = NoUser
  /\ expiries = [u \in StoreIds |-> 0]
  /\ published = [x \in PubKeys |-> 0]

\* ------------------------------------------------------ specifications
\* the Store and the worker carrying a presence transition through:
\* transaction, acknowledgement, publication, delivery
TransitionStep(i) ==
  \/ ExecOnline(i) \/ ExecOffline(i) \/ ExecPublish(i)
  \/ OnTransitionReply(i) \/ HandlePubSub(i)

RefreshStep(i) == ExecRefresh(i) \/ ExecRefreshFail(i) \/ OnRefreshReply(i)

BulkStep(i) == ExecBulk(i) \/ OnBulkReply(i)

SnapshotStep(i) == ExecKeys(i) \/ OnKeysReply(i)

\* one worker and one mobile connection of user A: its login, close and
\* expiry, and heartbeats naming A or the never-seen user B
Init == InitWith({"w1"}, TRUE)

Next ==
  \/ Tick
  \/ TransitionStep("w1") \/ HandleExpired("w1")
  \/ RefreshStep("w1")
  \/ registerClient("w1", "k1", <<"A">>, "mobile")
  \/ SocketClose("k1")
  \/ \E fromId \in Users : Heartbeat("k1", fromId)

Spec == Init /\ [][Next]_vars

\* one worker and one mobile connection of user A, heartbeats naming the
\* never-seen user B, and the bulk status query for both users
NextStatus ==
  \/ Tick
  \/ TransitionStep("w1")
  \/ ExecRefresh("w1") \/ OnRefreshReply("w1")
  \/ BulkStep("w1")
  \/ registerClient("w1", "k1", <<"A">>, "mobile")
  \/ SocketClose("k1")
  \/ Heartbeat("k1", <<"B">>)
  \/ HttpBulkStatus("w1", <<<<"A">>, <<"B">>>>)

SpecStatus == Init /\ [][NextStatus]_vars

\* one worker and one mobile connection that is never refreshed, under fair
\* scheduling of the Store and of the worker's callbacks
NextExpiry ==
  \/ Tick
  \/ TransitionStep("w1") \/ HandleExpired("w1")
  \/ \E id \in Users : registerClient("w1", "k1", id, "mobile")
  \/ SocketClose("k1")

SpecExpiry ==
  /\ Init /\ [][NextExpiry]_vars
  /\ WF_vars(TransitionStep("w1"))
  /\ WF_vars(HandleExpired("w1"))

\* one worker and one mobile connection that answers every ping: time
\* advances only when each open connection has answered the ping of the
\* current interval and the Store has executed what the worker sent
PongsAnswered ==
  /\ \A k \in Conns : sock[k].st = "OPEN" => sock[k].timestamp = now
  /\ \A i \in live : cmdq[i] = <<>>

PromptTick == PongsAnswered /\ Tick

NextPong ==
  \/ PromptTick
  \/ TransitionStep("w1")
  \/ ExecRefresh("w1") \/ OnRefreshReply("w1")
  \/ \E id \in Users : registerClient("w1", "k1", id, "mobile")
  \/ SocketClose("k1")
  \/ Pong("k1")

SpecPong == Init /\ [][NextPong]_vars

\* one worker and two mobile connections of one user, the second login
\* displacing the first
NextLogin ==
  \/ Tick
  \/ TransitionStep("w1") \/ HandleExpired("w1")
  \/ \E key \in Conns : registerClient("w1", key, <<"A">>, "mobile")
  \/ \E key \in Conns : SocketClose(key)

SpecLogin == Init /\ [][NextLogin]_vars

\* one worker, a dashboard socket and a mobile connection
NextDash ==
  \/ TransitionStep("w1")
  \/ BulkStep("w1")
  \/ SnapshotStep("w1")
  \/ \E role \in {"web", "dashboard"} :
       registerClient("w1", "k1", <<"A">>, role)
  \/ registerClient("w1", "k2", <<"B">>, "mobile")
  \/ \E key \in Conns : SocketClose(key)

SpecDash == Init /\ [][NextDash]_vars

\* one worker calling setUserOnline and setUserOffline for user A, with
\* expiry
NextOffline ==
  \/ Tick
  \/ TransitionStep("w1") \/ HandleExpired("w1")
  \/ CallSetUserOnline("w1", <<"A">>)
  \/ CallSetUserOffline("w1", <<"A">>)

SpecOffline == Init /\ [][NextOffline]_vars

\* one worker and the mobile connections of users A and B exchanging frames;
\* routing reads nothing of the presence Store, whose side is left out
NextRoute ==
  \/ registerClient("w1", "k1", <<"A">>, "mobile")
  \/ registerClient("w1", "k2", <<"B">>, "mobile")
  \/ \E key \in Conns : SocketClose(key)
  \/ \E key \in Conns, toId \in RouteIds : PrivateMessage(key, toId)
  \/ \E key \in Conns, fromId \in RouteIds : GroupMessage(key, fromId, "G")
  \/ \E err \in BOOLEAN, userIds \in MemberLists :
       GroupReply("w1", err, userIds)

SpecRoute == Init /\ [][NextRoute]_vars

\* one worker accepting or rejecting the handshakes of two sockets
NextAuth ==
  \/ \E key \in Conns, token \in Tokens : Handshake("w1", key, token)
  \/ \E key \in Conns : SocketClose(key)
  \/ TransitionStep("w1")

SpecAuth == Init /\ [][NextAuth]_vars

\* one worker answering POST /api/presence/status while a mobile client
\* comes and goes and the Store may fail the query
NextHttp ==
  \/ TransitionStep("w1")
  \/ ExecBulk("w1") \/ ExecBulkFail("w1") \/ OnBulkReply("w1")
  \/ registerClient("w1", "k1", <<"A">>, "mobile")
  \/ SocketClose("k1")
  \/ \E body \in Bodies : HttpPost("w1", body)

SpecHttp == Init /\ [][NextHttp]_vars

\* a Store that fails every presence transaction, one worker, two mobile
\* users talking to each other
ResidentIds == {Id(f, u) : f \in IdForms, u \in Users}

NextOutage ==
  \/ ExecOnlineFail("w1") \/ ExecOfflineFail("w1") \/ ExecRefreshFail("w1")
  \/ OnTransitionReply("w1") \/ OnRefreshReply("w1")
  \/ registerClient("w1", "k1", <<"A">>, "mobile")
  \/ registerClient("w1", "k2", <<"B">>, "mobile")
  \/ \E key \in Conns : SocketClose(key)
  \/ \E key \in Conns : Heartbeat(key, sock[key].user)
  \/ \E key \in Conns, toId \in ResidentIds : PrivateMessage(key, toId)

SpecOutage == Init /\ [][NextOutage]_vars

\* one worker calling setUserOnline and setUserOffline on a Store that
\* may fail either transaction
NextAck ==
  \/ TransitionStep("w1")
  \/ ExecOnlineFail("w1") \/ ExecOfflineFail("w1")
  \/ \E u \in Users : CallSetUserOnline("w1", u)
  \/ \E u \in Users : CallSetUserOffline("w1", u)

SpecAck == Init /\ [][NextAck]_vars

\* one worker, two mobile users of one group taking turns and leaving
NextTurn ==
  \/ registerClient("w1", "k1", <<"A">>, "mobile")
  \/ registerClient("w1", "k2", <<"B">>, "mobile")
  \/ \E key \in Conns : SocketClose(key)
  \/ \E key \in Conns, g \in Groups : TakeTurn(key, g)
  \/ \E g \in Groups : EndTurn(g)
  \/ StatesExec("w1") \/ OnStatesReply("w1")

SpecTurn == Init /\ [][NextTurn]_vars

\* one worker and two mobile users sending frames of every kind
NextMessage ==
  \/ registerClient("w1", "k1", <<"A">>, "mobile")
  \/ registerClient("w1", "k2", <<"B">>, "mobile")
  \/ \E key \in Conns : SocketClose(key)
  \/ \E key \in Conns, msg \in Msgs : ClientMessage(key, msg)
  \/ \E userIds \in MemberLists : GroupReply("w1", FALSE, userIds)

SpecMessage == Init /\ [][NextMessage]_vars

\* two workers calling the presence manager over one Store
InitCluster == InitWith(Instances, TRUE)

NextCluster ==
  \/ Tick
  \/ \E i \in Instances :
       \/ TransitionStep(i) \/ HandleExpired(i)
       \/ RefreshStep(i)
       \/ CallSetUserOnline(i, <<"A">>)
       \/ CallRefreshHeartbeat(i, <<"A">>)
       \/ CallSetUserOffline(i, <<"A">>)

SpecCluster == InitCluster /\ [][NextCluster]_vars

\* the workers of a cluster start: each PresenceManager sends CONFIG SET
InitStart == InitWith(Instances, FALSE)

\* WORKER_NUMBER.toString() === "1"
Leader == "w1"

NextStart ==
  \/ Tick
  \/ \E i \in Instances :
       \/ ExecConfig(i) \/ OnConfigReply(i)
       \/ TransitionStep(i) \/ HandleExpired(i)
  \/ CallSetUserOnline("w1", <<"A">>)

SpecStart == InitStart /\ [][NextStart]_vars

\* one worker starts on a Store that may fail CONFIG SET, then serves
\* every presence operation
InitOne == InitWith({"w1"}, FALSE)

NextNoEvents ==
  \/ Tick
  \/ ExecConfig("w1") \/ ExecConfigFail("w1") \/ OnConfigReply("w1")
  \/ ExecOnline("w1") \/ ExecOffline("w1") \/ OnTransitionReply("w1")
  \/ ExecPublish("w1") \/ HandleExpired("w1")
  \/ ExecRefresh("w1") \/ OnRefreshReply("w1")
  \/ BulkStep("w1")
  \/ registerClient("w1", "k1", <<"A">>, "mobile")
  \/ Heartbeat("k1", <<"A">>)
  \/ SocketClose("k1")
  \/ HttpBulkStatus("w1", <<<<"A">>>>)

SpecNoEvents == InitOne /\ [][NextNoEvents]_vars

\* ------------------------------------------------------------ properties
Last(seq) == seq[Len(seq)]

InSeq(seq, P(_)) == \E n \in 1..Len(seq) : P(seq[n])

\* what getBulkPresenceStatus([u]) would report on the Store as it is
StatusNow(u) == BulkEntry(u, Exists(u), HGetAll(u), now).status

\* nothing of worker i is in flight
Quiescent(i) ==
  /\ cmdq[i] = <<>> /\ pubq[i] = <<>> /\ replies[i] = <<>>
  /\ subq[i] = <<>> /\ expq[i] = <<>>

\* C1: whenever the Store executes a bulk status query, each requested user
\* is reported online exactly if presence:user:{u} exists at that moment.
C1_OnlineIffKeyExists ==
  [][\A i \in Instances :
       ExecBulk(i) =>
         LET r == Last(replies'[i]) IN
         \A n \in 1..Len(r.ids) :
           (BulkUsers(r, now)[n].status = "online") <=> Exists(r.ids[n])]_vars

C1_Witness ==
  InSeq(replies["w1"], LAMBDA r :
          r.kind = "bulk" /\ r.exists[1]
          /\ BulkUsers(r, now)[1].status = "online")

\* C2: lastSeen of presence:meta:{u} never decreases, whatever the
\* interleaving of the operations of the workers.
C2_LastSeenMonotonic ==
  [][\A u \in StoreIds : meta'[u].lastSeen >= meta[u].lastSeen]_vars

\* C3: once the close of a registered mobile connection has been handled
\* and its setUserOffline has run its course, the presence key is absent,
\* meta.status is "offline" and exactly one message for the user was
\* published on presence:offline for this disconnect.
OfflineInFlight(i, key) ==
  \/ InSeq(cmdq[i], LAMBDA c : c.src = key /\ c.kind = "offline")
  \/ InSeq(pubq[i], LAMBDA c : c.src = key /\ c.status = "offline")
  \/ InSeq(replies[i], LAMBDA r : r.src = key /\ r.kind = "offline")

Disconnected(key) ==
  /\ sock[key].st = "CLOSED"
  /\ ~OfflineInFlight(sock[key].inst, key)

C3_CloseMarksOffline ==
  \A key \in Conns :
    Disconnected(key) =>
      /\ ~Exists(sock[key].user)
      /\ meta[sock[key].user].status = "offline"
      /\ published[<<"presence:offline", sock[key].user, key>>] = 1

C3_Witness ==
  /\ Disconnected("k1")
  /\ published[<<"presence:offline", sock["k1"].user, "k1">>] = 1

\* C4: when presence:user:{u} expires and the expiry is announced, then
\* eventually setUserOffline has run for u: meta.status is "offline", bulk
\* status reports u offline, and a message for u is published on
\* presence:offline.
ExpiryPending(u) ==
  \E i \in live : InSeq(expq[i], LAMBDA k : k = forPresence(u))

C4_ExpiryLeadsToOffline ==
  \A u \in Users :
    /\ ExpiryPending(u) ~>
         (meta[u].status = "offline" /\ StatusNow(u) = "offline")
    /\ \A n \in 1..MaxTime :
         (expiries[u] >= n) ~>
           (published[<<"presence:offline", u, "expiry">>] >= n)

C4_Witness ==
  \E u \in Users :
    /\ expiries[u] >= 1
    /\ published[<<"presence:offline", u, "expiry">>] >= 1
    /\ meta[u].status = "offline" /\ StatusNow(u) = "offline"

\* C5: after a duplicate login of user u on one worker, once the displaced
\* connection is closed and nothing is in flight any more, u is still
\* reported online, as long as u's presence key never ran out its TTL and
\* the displacing connection is still open.
LoginDuplicated(key) ==
  InSeq(recv[key], LAMBDA f : f.type = "LOGIN_DUPLICATED")

DuplicateLoginDone(a, b) ==
  /\ LoginDuplicated(a) /\ sock[a].st = "CLOSED"
  /\ sock[b].st = "OPEN"
  /\ Quiescent(sock[b].inst)

C5_DuplicateLoginStaysOnline ==
  \A a \in Conns : \A b \in Conns \ {a} :
    (DuplicateLoginDone(a, b) /\ expiries[sock[b].user] = 0) =>
      (Exists(sock[b].user) /\ StatusNow(sock[b].user) = "online")

C5_Witness ==
  /\ DuplicateLoginDone("k1", "k2") /\ expiries[sock["k2"].user] = 0
  /\ StatusNow(sock["k2"].user) = "online"

\* C6: a second login of u under another handshake key sends
\* LOGIN_DUPLICATED to the attached connection and closes it; once its close
\* is handled, the client table and the socket index of u hold exactly the
\* new connection, and only the displaced one received LOGIN_DUPLICATED.
C6_Tables ==
  \A a \in Conns : \A b \in Conns \ {a} :
    (LoginDuplicated(a) /\ sock[a].st = "CLOSED" /\ sock[b].st = "OPEN") =>
      /\ clients[sock[b].inst][sock[b].user].conn = b
      /\ sockets[sock[b].inst][sock[b].user] = b
      /\ Count(recv[a], LAMBDA f : f.type = "LOGIN_DUPLICATED") = 1
      /\ ~LoginDuplicated(b)

C6_Displace ==
  \A i \in Instances, key \in Conns, id \in Users :
    (registerClient(i, key, id, "mobile")
       /\ clients[i][id].conn \notin {"none", key}) =>
      LET a == clients[i][id].conn IN
      /\ recv'[a] = Append(recv[a], Frame("LOGIN_DUPLICATED", id, "", "", <<>>))
      /\ sock'[a].st = "CLOSING"
      /\ recv'[key] = recv[key]

C6_DuplicateLoginUniqueness == []C6_Tables /\ [][C6_Displace]_vars

C6_Witness ==
  /\ LoginDuplicated("k1") /\ sock["k1"].st = "CLOSED"
  /\ sock["k2"].st = "OPEN"
  /\ sockets["w1"][sock["k2"].user] = "k2"

\* C7: for each presence transition, every OPEN socket of the dashboard
\* broadcast set receives exactly one PRESENCE_UPDATE frame: at least one
\* when the transition's message is handled, and never a second one.
UpdatesFor(r, key, m) ==
  Count(r[key], LAMBDA f : f.type = "PRESENCE_UPDATE" /\ f.userId = m.userId
                           /\ f.status = m.status /\ f.src = m.src)

C7_AtMostOne ==
  \A key \in Conns :
    \A n \in 1..Len(recv[key]) :
      UpdatesFor(recv, key, recv[key][n]) <= 1

C7_AtLeastOne ==
  \A i \in Instances :
    HandlePubSub(i) =>
      \A n \in 1..Len(webClients[i]) :
        sock[webClients[i][n].socket].st = "OPEN" =>
          UpdatesFor(recv', webClients[i][n].socket, Head(subq[i])) >= 1

C7_OneUpdatePerTransition == []C7_AtMostOne /\ [][C7_AtLeastOne]_vars

\* C8: no PRESENCE_UPDATE frame is sent to a dashboard socket before its
\* PRESENCE_SNAPSHOT.
C8_SnapshotFirst ==
  \A key \in Conns :
    \A n \in 1..Len(recv[key]) :
      recv[key][n].type = "PRESENCE_UPDATE" =>
        \E m \in 1..(n - 1) : recv[key][m].type = "PRESENCE_SNAPSHOT"

\* C9: a refreshHeartbeat executed while presence:user:{u} is absent leaves
\* every presence key and every meta hash unchanged.
RefreshOfMissingKey(i) ==
  ExecRefresh(i) /\ ~Exists(Head(cmdq[i]).user)

C9_RefreshMissingKeyIsNoOp ==
  [][\A i \in Instances :
       RefreshOfMissingKey(i) => (pkey' = pkey /\ meta' = meta)]_vars

RefreshHeartbeatStep(i) ==
  \/ ExecRefresh(i) \/ ExecRefreshFail(i) \/ OnRefreshReply(i)
  \/ \E key \in Conns, fromId \in Users :
       sock[key].inst = i /\ Heartbeat(key, fromId)

C12_Reset ==
  \A i \in Instances, u \in StoreIds :
    (ExecRefresh(i) /\ u = Head(cmdq[i]).user /\ Exists(u)) =>
      (pkey'[u] = now + PRESENCE_TTL /\ Exists(u)')

C12_Keeps ==
  \A u \in StoreIds :
    (Tick /\ Exists(u) /\ pkey[u] > now') => (Exists(u)' /\ pkey'[u] = pkey[u])

C12_RefreshResetsTTL == [][C12_Reset /\ C12_Keeps]_vars

C12_Witness ==
  /\ InSeq(replies["w1"], LAMBDA r :
             r.kind = "refresh" /\ ~r.err /\ r.user = <<"A">>)
  /\ now > 1 /\ pkey[<<"A">>] = now + PRESENCE_TTL
  /\ StatusNow(<<"A">>) = "online"

\* C13: every pong of a registered mobile connection sends a refresh of the
\* user's presence key, and while the connection answers every ping its
\* key, once set, never expires.
OnlineInFlight(i, key) ==
  InSeq(cmdq[i], LAMBDA c : c.src = key /\ c.kind = "online")

C13_PongRefreshes ==
  \A key \in Conns :
    (Pong(key) /\ clients[sock[key].inst][sock[key].user].role = "mobile") =>
      /\ cmdq'[sock[key].inst] # <<>>
      /\ Last(cmdq'[sock[key].inst]) =
           Cmd("refresh", sock[key].user, now, "heartbeat")
      /\ Len(cmdq'[sock[key].inst]) = Len(cmdq[sock[key].inst]) + 1

C13_StaysOnline ==
  \A key \in Conns :
    (sock[key].st = "OPEN" /\ ~OnlineInFlight(sock[key].inst, key)) =>
      (Exists(sock[key].user) /\ expiries[sock[key].user] = 0
       /\ StatusNow(sock[key].user) = "online")

OfflineTerminal(u) == ~Exists(u) /\ meta[u].status = "offline"

C14_OfflineTwice ==
  [][\A i \in Instances, u \in StoreIds :
       (ExecOffline(i) /\ u = Head(cmdq[i]).user) =>
         /\ OfflineTerminal(u)'
         /\ OfflineTerminal(u) =>
              (pkey' = pkey /\ meta' = [meta EXCEPT ![u].lastSeen = meta'[u].lastSeen])
         /\ \A v \in StoreIds \ {u} : pkey'[v] = pkey[v] /\ meta'[v] = meta[v]]_vars

C14_Witness ==
  /\ published[<<"presence:offline", <<"A">>, "api">>] >= 2
  /\ OfflineTerminal(<<"A">>) /\ Quiescent("w1")

\* C15: a group fan-out with fromId = u and echo = false writes nothing to
\* the connection of u's own client, whatever list the Store answers with.
C15_NoEcho ==
  [][\A i \in Instances, userIds \in MemberLists :
       (GroupReply(i, FALSE, userIds) /\ ~Head(lookups[i]).echo
        /\ hasOwnProperty(i, Head(lookups[i]).userId)) =>
         LET own == clients[i][toString(Head(lookups[i]).userId)].conn
         IN  recv'[own] = recv[own]]_vars

IsData(f, key) == f.type = "AUDIO" /\ f.src = key

C15_Witness ==
  /\ sock["k1"].st = "OPEN" /\ sock["k2"].st = "OPEN"
  /\ calls.send >= 1 /\ lookups["w1"] = <<>>
  /\ InSeq(recv["k2"], LAMBDA f : IsData(f, "k1") /\ f.status = "GROUP"
                                   /\ f.userId = <<"A">>)
  /\ ~InSeq(recv["k1"], LAMBDA f : IsData(f, "k1"))

\* C16: when the membership lookup of a group frame sent by A answers with
\* a list, the frame is written exactly once to the open attached connection
\* of every resident member other than A, and to no other connection.
Member(u, userIds) == \E n \in 1..Len(userIds) : toString(userIds[n]) = u

Recipient(i, k, l, userIds) ==
  \E u \in Users :
    /\ clients[i][u].conn = k /\ sock[k].st = "OPEN"
    /\ Member(u, userIds) /\ u # toString(l.userId)

C16_GroupFanOut ==
  [][\A i \in Instances, userIds \in MemberLists :
       GroupReply(i, FALSE, userIds) =>
         \A k \in Conns :
           recv'[k] = IF Recipient(i, k, Head(lookups[i]), userIds)
                      THEN Append(recv[k], Head(lookups[i]).data)
                      ELSE recv[k]]_vars

C16_Witness ==
  /\ sock["k1"].st = "OPEN" /\ sock["k2"].st = "OPEN"
  /\ calls.send >= 1 /\ lookups["w1"] = <<>>
  /\ Count(recv["k1"], LAMBDA f : IsData(f, "k2")) = 1
  /\ Count(recv["k2"], LAMBDA f : IsData(f, "k2")) = 0

\* C17: a frame on the PRIVATE channel is written to the connection of the
\* client registered for toId and to no other; when no client is registered
\* for toId nothing changes but the count of frames handled.
C17_PrivateDelivery ==
  [][\A key \in Conns, toId \in RouteIds :
       PrivateMessage(key, toId) =>
         LET i == sock[key].inst IN
         /\ \A k \in Conns :
              (recv'[k] # recv[k]) <=>
                (hasOwnProperty(i, toId) /\ sock[k].st = "OPEN"
                 /\ clients[i][toString(toId)].conn = k)
         /\ ~hasOwnProperty(i, toId) =>
              (recv' = recv /\ uncaught' = uncaught)]_vars

\* C18: with authentication enabled, a handshake whose token fails the
\* signature verification is answered 401: no client is registered for it
\* and no presence operation is sent.
C18_BadSignatureRejected ==
  [][\A i \in Instances, key \in Conns, token \in Tokens :
       (Handshake(i, key, token) /\ useAuthentication
        /\ token.present /\ ~token.sigValid) =>
         /\ sock'[key].st = "REJECTED"
         /\ clients' = clients /\ sockets' = sockets
         /\ cmdq' = cmdq]_vars

\* C19: on every router instance the client table and the socket index hold
\* the same user ids, a user has one client with at most one open
\* connection of its own, and the socket index entry of a user is the socket
\* of the connection its client has attached.
C19_TablesAgree ==
  \A i \in Instances : \A id \in Users :
    /\ (clients[i][id] # NoClient) <=> (sockets[i][id] # "none")
    /\ clients[i][id] # NoClient =>
         /\ sockets[i][id] = clients[i][id].conn
         /\ sock[clients[i][id].conn].user = id
         /\ sock[clients[i][id].conn].inst = i
    /\ \A key \in Conns :
         (sock[key].st = "OPEN" /\ sock[key].user = id /\ sock[key].inst = i)
           => clients[i][id].conn = key

C19_Witness ==
  /\ clients["w1"][<<"A">>].conn = "k2" /\ sockets["w1"][<<"A">>] = "k2"
  /\ sock["k1"].user = <<"A">> /\ sock["k1"].st = "CLOSING"
  /\ clients["w1"][<<"B">>] = NoClient

\* C20: when a client whose role is web or dashboard unregisters, no entry
\* of that client remains in the dashboard broadcast set.
Unregisters(key, role) ==
  /\ SocketClose(key)
  /\ EmitsUnregister(sock[key].inst, sock[key].user, key)
  /\ clients[sock[key].inst][sock[key].user].role = role

C20_UnregisterLeavesBroadcastSet ==
  [][\A key \in Conns, role \in {"web", "dashboard"} :
       Unregisters(key, role) =>
         \A n \in 1..Len(webClients'[sock[key].inst]) :
           webClients'[sock[key].inst][n].userId # sock[key].user]_vars

\* C21: getBulkPresenceStatus(ids) yields one entry per requested id, in
\* request order: online with lastSeen = meta.lastSeen when the key exists
\* and the meta hash is present, offline with lastSeen = meta.lastSeen when
\* the key is absent and the meta hash is present, offline with lastSeen = 0
\* when neither exists.
BulkEntryAgrees(userId, e) ==
  /\ e.userId = userId
  /\ (Exists(userId) /\ MetaPresent(HGetAll(userId))) =>
       (e.status = "online" /\ e.lastSeen = HGetAll(userId).lastSeen)
  /\ (~Exists(userId) /\ MetaPresent(HGetAll(userId))) =>
       (e.status = "offline" /\ e.lastSeen = HGetAll(userId).lastSeen)
  /\ (~Exists(userId) /\ ~MetaPresent(HGetAll(userId))) =>
       (e.status = "offline" /\ e.lastSeen = 0)

ResponsesTo(req) == Count(httpRes, LAMBDA x : x.req = req)

IsPending(req) ==
  \E i \in Instances : \E n \in 1..Len(httpPending[i]) :
    httpPending[i][n] = req

C22_OneResponse ==
  \A req \in 1..calls.http :
    IF IsPending(req) THEN ResponsesTo(req) = 0 ELSE ResponsesTo(req) = 1

C22_Status ==
  /\ \A i \in Instances, body \in Bodies :
       (HttpPost(i, body) /\ body.kind # "array") =>
         /\ Len(httpRes') = Len(httpRes) + 1
         /\ Last(httpRes').req = calls.http + 1
         /\ Last(httpRes').status = 400
  /\ \A i \in Instances, body \in Bodies :
       (HttpPost(i, body) /\ body.kind = "array" /\ body.userIds = <<>>) =>
         /\ Len(httpRes') = Len(httpRes) + 1
         /\ Last(httpRes').req = calls.http + 1
         /\ Last(httpRes').status = 200 /\ Last(httpRes').users = <<>>
  /\ \A i \in Instances :
       (OnBulkReply(i) /\ Head(replies[i]).src = "http") =>
         LET r == Head(replies[i])
             res == Last(httpRes')
         IN  /\ Len(httpRes') = Len(httpRes) + 1
             /\ res.req = Head(httpPending[i])
             /\ r.err => res.status = 500
             /\ ~r.err => /\ res.status = 200
                           /\ Len(res.users) = Len(r.ids)
                           /\ \A n \in 1..Len(r.ids) :
                                res.users[n].userId = r.ids[n]

FailedReply(i) ==
  /\ OnTransitionReply(i) \/ OnRefreshReply(i)
  /\ Head(replies[i]).err

C23_Delivered ==
  \A key \in Conns, toId \in ResidentIds :
    LET i == sock[key].inst
        to == clients[i][toString(toId)].conn
    IN  (PrivateMessage(key, toId) /\ hasOwnProperty(i, toId)
         /\ sock[to].st = "OPEN") =>
          /\ Len(recv'[to]) = Len(recv[to]) + 1
          /\ IsData(Last(recv'[to]), key)
          /\ Last(recv'[to]).userId = sock[key].user
          /\ ~uncaught'[i]

C23_NoClose ==
  \A i \in Instances :
    FailedReply(i) =>
      (sock' = sock /\ clients' = clients /\ sockets' = sockets
       /\ ~uncaught'[i])

C23_PTTSurvivesOutage == [][C23_Delivered /\ C23_NoClose]_vars

C23_Witness ==
  /\ sock["k1"].st = "OPEN" /\ sock["k2"].st = "OPEN"
  /\ cmdq["w1"] = <<>> /\ replies["w1"] = <<>>
  /\ \A u \in Users : ~Exists(u)
  /\ published = [x \in PubKeys |-> 0]
  /\ InSeq(recv["k2"], LAMBDA f : IsData(f, "k1") /\ f.status = "PRIVATE")

\* C24: a presence transition is published only after its transaction was
\* acknowledged as successful: a publication and a status-mirror update
\* are sent only by the callback of a successful setUserOnline or
\* setUserOffline transaction; when the transaction failed that callback
\* publishes nothing, leaves the mirror alone and reports failure.
C24_OnlyOnAck ==
  \A i \in Instances :
    (Len(pubq'[i]) > Len(pubq[i]) \/ (i \in live /\ mirror' # mirror)) =>
      \E j \in Instances : OnTransitionReply(j) /\ ~Head(replies[j]).err

C24_OnFailure ==
  \A i \in Instances :
    (OnTransitionReply(i) /\ Head(replies[i]).err) =>
      /\ pubq' = pubq /\ published' = published /\ subq' = subq
      /\ mirror' = mirror
      /\ transitionAck'[i].err /\ ~transitionAck'[i].success

C24_OnSuccess ==
  \A i \in Instances :
    (OnTransitionReply(i) /\ ~Head(replies[i]).err) =>
      /\ Len(pubq'[i]) = Len(pubq[i]) + 2
      /\ [userId |-> Head(replies[i]).user,
          status |-> Head(replies[i]).kind] \in mirror'
      /\ transitionAck'[i].success

C24_PublishAfterAck ==
  [][C24_OnlyOnAck /\ C24_OnFailure /\ C24_OnSuccess]_vars

C24_Witness ==
  /\ transitionAck["w1"].err /\ transitionAck["w1"].kind = "online"
  /\ calls.api >= 1 /\ Quiescent("w1")
  /\ mirror = {} /\ published = [x \in PubKeys |-> 0]

\* C25: on unregister every current-speaker lock held by the leaving user
\* is cleared: once the States operations of the unregister are done no
\* group lock names that user, and the removal sent for that user never
\* deletes a lock that names another user.
Resident(u) == \E i \in Instances : clients[i][u] # NoClient

StatesDone == \A i \in Instances : stq[i] = <<>> /\ stReplies[i] = <<>>

C25_Cleared ==
  \A key \in Conns, g \in Groups :
    (sock[key].st = "CLOSED" /\ ~Resident(sock[key].user) /\ StatesDone) =>
      current.group[g] # sock[key].user

C25_OthersUntouched ==
  \A i \in Instances :
    (StatesExec(i) /\ Head(stq[i]).kind = "removeCurrentMessageOfGroup") =>
      current.group[Head(stq[i]).group] \in {<<>>, Head(stq[i]).user}

C25_UnregisterClearsLocks == []C25_Cleared /\ [][C25_OthersUntouched]_vars

\* C26: a HEARTBEAT frame, on either channel type, calls
\* refreshHeartbeat(fromId) and is not routed: nothing is written to any
\* socket and no group-membership lookup is started.
C26_HeartbeatNotRouted ==
  [][\A key \in Conns, msg \in Msgs :
       (ClientMessage(key, msg) /\ msg.messageType = "HEARTBEAT") =>
         LET i == sock[key].inst IN
         /\ cmdq'[i] = Append(cmdq[i],
                              Cmd("refresh", msg.fromId, now, "heartbeat"))
         /\ recv' = recv /\ lookups' = lookups
         /\ calls'.send = calls.send]_vars

C26_Witness ==
  /\ calls.heartbeat >= 1 /\ calls.send = 0
  /\ sock["k1"].st = "OPEN" /\ sock["k2"].st = "OPEN"
  /\ \E n \in 1..Len(cmdq["w1"]) :
       cmdq["w1"][n].kind = "refresh" /\ cmdq["w1"][n].user = <<"B">>
  /\ lookups["w1"] = <<>> /\ recv["k1"] = <<>> /\ recv["k2"] = <<>>

\* C27: a registration with role web or dashboard adds the socket to the
\* dashboard broadcast set and asks for the snapshot, which is sent to the
\* socket once, and sends no setUserOnline; a registration with any other
\* role sends setUserOnline and leaves the broadcast set alone.
IsWebRole(role) == role = "web" \/ role = "dashboard"

SnapshotPending(i, key) ==
  \/ InSeq(cmdq[i], LAMBDA c : c.src = key /\ c.kind \in {"keys", "bulk"})
  \/ InSeq(replies[i], LAMBDA r : r.src = key /\ r.kind \in {"keys", "bulk"})

C27_Register ==
  \A i \in Instances, key \in Conns, id \in Users, role \in Roles :
    registerClient(i, key, id, role) =>
      IF IsWebRole(role)
      THEN /\ webClients'[i] =
                Append(webClients[i],
                       [userId |-> id, socket |-> key, role |-> role])
           /\ cmdq'[i] = Append(cmdq[i], Cmd("keys", <<>>, 0, key))
      ELSE /\ webClients' = webClients
           /\ cmdq'[i] = Append(cmdq[i], Cmd("online", id, now, key))

C27_Snapshot ==
  \A key \in Conns :
    LET i == sock[key].inst IN
    (sock[key].st = "OPEN" /\ IsWebRole(clients[i][sock[key].user].role)
     /\ clients[i][sock[key].user].conn = key) =>
       /\ \E n \in 1..Len(webClients[i]) : webClients[i][n].socket = key
       /\ Count(recv[key], LAMBDA f : f.type = "PRESENCE_SNAPSHOT") =
            (IF SnapshotPending(i, key) THEN 0 ELSE 1)
       /\ ~InSeq(cmdq[i], LAMBDA c : c.kind = "online" /\ c.src = key)

C27_MobileNotListed ==
  \A i \in Instances : \A n \in 1..Len(webClients[i]) :
    IsWebRole(webClients[i][n].role)

C27_RoleBranches ==
  [](C27_Snapshot /\ C27_MobileNotListed) /\ [][C27_Register]_vars

C27_Witness ==
  /\ sock["k1"].st = "OPEN" /\ clients["w1"][<<"A">>].role = "dashboard"
  /\ Count(recv["k1"], LAMBDA f : f.type = "PRESENCE_SNAPSHOT") = 1
  /\ sock["k2"].st = "OPEN" /\ clients["w1"][<<"B">>].role = "mobile"
  /\ Exists(<<"B">>) /\ ~Exists(<<"A">>)
  /\ Len(webClients["w1"]) = 1

\* C28: only the leader worker sends the Store's expiry-event configuration
\* and subscribes to the expiry channel; no other worker does, so each
\* key expiry is heard, and turned into setUserOffline, by one worker only.
C28_LeaderSubscribes ==
  \A i \in Instances \ {Leader} : ~ksEnabled[i] /\ expq[i] = <<>>

C28_OneHandler ==
  /\ \A i \in Instances : (ExecConfig(i) \/ HandleExpired(i)) => i = Leader
  /\ Tick => Cardinality({i \in Instances : expq'[i] # expq[i]}) <= 1

C28_LeaderOnly == []C28_LeaderSubscribes /\ [][C28_OneHandler]_vars

\* C29: when the start-up command that enables expired-key notifications
\* fails, the manager never subscribes to the expiry channel and performs
\* no expiry-driven setUserOffline; the other operations are unaffected.
ExpiryDriven(i) ==
  \/ expq[i] # <<>>
  \/ InSeq(cmdq[i], LAMBDA c : c.src = "expiry")
  \/ InSeq(replies[i], LAMBDA r : r.src = "expiry")
  \/ InSeq(pubq[i], LAMBDA c : c.src = "expiry")

C29_NoSubscription ==
  \A i \in Instances :
    /\ ~ksEnabled[i] => ~ExpiryDriven(i)
    /\ (\A j \in live : ~ksEnabled[j]) =>
         \A x \in PubKeys : x[3] = "expiry" => published[x] = 0

C29_OnFailure ==
  \A i \in Instances :
    /\ (OnConfigReply(i) /\ Head(replies[i]).err) => ~ksEnabled'[i]
    /\ (ksEnabled'[i] # ksEnabled[i]) =>
         (OnConfigReply(i) /\ ~Head(replies[i]).err)
    /\ (HandleExpired(i) => ksEnabled[i])

C29_ConfigFailure == []C29_NoSubscription /\ [][C29_OnFailure]_vars

C29_Witness ==
  /\ ~ksEnabled["w1"] /\ storeNotify
  /\ cmdq["w1"] = <<>> /\ replies["w1"] = <<>> /\ expq["w1"] = <<>>
  /\ calls.heartbeat >= 1 /\ calls.http >= 1
  /\ sock["k1"].st = "OPEN"
  /\ ~Exists(<<"A">>) /\ meta[<<"A">>].status = "online"
  /\ \E n \in 1..Len(httpRes) :
       httpRes[n].status = 200 /\ httpRes[n].users[1].status = "offline"

\* ------------------------------------------------------- close semantics
\* one worker, a user who connects twice, frames decoded at once or later,
\* pongs and closes
NextConn ==
  \/ PromptTick
  \/ ExecOnline("w1") \/ ExecOffline("w1") \/ OnTransitionReply("w1")
  \/ ExecRefresh("w1") \/ OnRefreshReply("w1")
  \/ \E key \in Conns : registerClient("w1", key, <<"A">>, "mobile")
  \/ \E key \in Conns : SocketClose(key)
  \/ Pong("k1")
  \/ \E msg \in HeartbeatFrames : SocketMessage("k1", msg)
  \/ \E err \in BOOLEAN : UnpackCallback("k1", err)

SpecConn == Init /\ [][NextConn]_vars

\* C30: on a socket close the Connection detaches all five socket handlers
\* and then emits exactly one close event; after that close event it emits
\* no further message, pong or close event, also not for a frame whose
\* decoding was started before the close
C30_Detached ==
  \A key \in Conns :
    (conn'[key].closes # conn[key].closes) =>
      /\ conn[key].listeners = Handlers
      /\ conn'[key].listeners = {}
      /\ conn'[key].closes = conn[key].closes + 1

C30_OneClose ==
  \A key \in Conns :
    /\ conn[key].closes <= 1
    /\ (sock[key].st = "CLOSED") = (conn[key].closes = 1)
    /\ conn[key].closes = 1 => conn[key].listeners = {}

C30_NothingAfterClose == \A key \in Conns : conn[key].late = {}

C30_DetachThenClose == [][C30_Detached]_vars

NextPing ==
  \/ Tick
  \/ registerClient("w1", "k1", <<"A">>, "mobile")
  \/ registerClient("w1", "k2", <<"B">>, "mobile")
  \/ \E key \in Conns : SocketClose(key)
  \/ \E key \in Conns, throws \in BOOLEAN : Ping(key, throws)
  \/ Pong("k1")
  \/ \E key \in Conns : Heartbeat(key, sock[key].user)

SpecPing == Init /\ [][NextPing]_vars

\* C31: the Connection's lastActivity timestamp is updated on every inbound
\* event from the peer: every inbound binary frame, every control-ping and
\* every control-pong
C31_Control ==
  \A key \in Conns :
    ((\E throws \in BOOLEAN : Ping(key, throws)) \/ Pong(key)) =>
      sock'[key].timestamp = now

C31_Frame ==
  \A key \in Conns :
    (\E fromId \in Users : Heartbeat(key, fromId)) =>
      sock'[key].timestamp = now

C31_ControlUpdates == [][C31_Control]_vars

C31_LastActivity == [][C31_Control /\ C31_Frame]_vars

\* C32: for every resolved userId, also one longer than 125 bytes, the
\* payload of the control-pong sent in answer to a peer ping is at most 125
\* bytes long and is a prefix of the userId
IsPrefix(p, str) == Len(p) <= Len(str) /\ p = SubSeq(str, 1, Len(p))

PongsSent(key) ==
  {n \in 1..Len(recv[key]) : recv[key][n].type = "pong"}

C32_PongPayload ==
  \A key \in Conns : \A n \in PongsSent(key) :
    /\ Len(recv[key][n].userId) <= ControlFrameLimit
    /\ IsPrefix(recv[key][n].userId, Utf8(sock[key].user))

C32_PongIsUserId ==
  \A key \in Conns : \A n \in PongsSent(key) :
    recv[key][n].userId = Utf8(sock[key].user)

\* ------------------------------------------------------ token resolution
\* the most claims the objects of the check carry
MaxClaims == 2

ClaimSet == {ClaimNames[n] : n \in 1..Len(ClaimNames)}

ClaimValues == {<<>>, <<"A">>, <<"C">>}

Objects ==
  UNION {[D -> ClaimValues] : D \in {E \in SUBSET ClaimSet :
                                       Cardinality(E) <= MaxClaims}}

Payloads ==
  {Payload("absent", <<>>, NoObject), Payload("text", <<"A">>, NoObject),
   Payload("scalar", <<"0">>, NoObject)}
  \cup {Payload("string", str, NoObject) :
          str \in {<<>>, <<"A">>, <<Quote, "A", Quote>>, <<Quote, Quote>>,
                   <<Quote, "A", Quote, "C">>}}
  \cup {Payload("object", <<>>, obj) : obj \in Objects}

Jwts == {Jwt(p, <<"B">>, v) : p \in Payloads, v \in BOOLEAN}

NextResolve == \E jwt \in Jwts : ResolveToken(jwt)

SpecResolve == Init /\ [][NextResolve]_vars

\* the position in ClaimNames of the first claim of obj that satisfies P
FirstClaim(obj, P(_)) ==
  LET S == {n \in 1..Len(ClaimNames) :
              ClaimNames[n] \in DOMAIN obj /\ P(obj[ClaimNames[n]])}
  IN  IF S = {} THEN 0 ELSE CHOOSE n \in S : \A m \in S : n <= m

\* str from its first to its last character that is no double quote
Unquoted(str) ==
  LET I == {k \in 1..Len(str) : str[k] # Quote}
  IN  IF I = {} THEN <<>>
      ELSE SubSeq(str, CHOOSE k \in I : \A m \in I : k <= m,
                  CHOOSE k \in I : \A m \in I : k >= m)

C34_KeyImpliesOnlineMeta ==
  \A u \in StoreIds :
    Exists(u) => (MetaPresent(HGetAll(u)) /\ HGetAll(u).status = "online")

\* a user who was marked offline and is online again
C34_Witness ==
  \E u \in Users :
    /\ Exists(u) /\ meta[u].status = "online"
    /\ \E x \in PubKeys :
         x[1] = "presence:offline" /\ x[2] = u /\ published[x] > 0

\* C35: a setUserOffline triggered by a key-expiry event never deletes a
\* presence key written by a setUserOnline that completed after that
\* expiry: a user who reconnects between the expiry of presence:user:{u}
\* and the processing of its expiry event is still online afterwards
C35_StaleExpiryKeepsKey ==
  [][\A i \in Instances :
       (ExecOffline(i) /\ Head(cmdq[i]).src = "expiry") =>
         (Exists(Head(cmdq[i]).user) => pkey'[Head(cmdq[i]).user] > 0)]_vars

\* ------------------------------------------------------------- roaming
\* two workers; user A connects to w1 on k1 and to w2 on k2, and either
\* socket may close; no time passes
NextRoam ==
  \/ registerClient("w1", "k1", <<"A">>, "mobile")
  \/ registerClient("w2", "k2", <<"A">>, "mobile")
  \/ \E key \in Conns : SocketClose(key)
  \/ \E i \in Instances : TransitionStep(i)

SpecRoam == InitCluster /\ [][NextRoam]_vars

\* C36: across router instances, whenever user u has a mobile connection
\* registered on some instance, all issued presence operations for u have
\* completed and less than the TTL has elapsed since u's last setUserOnline
\* or refresh, presence:user:{u} exists; a setUserOffline issued by one
\* instance for u's old connection does not leave u offline after u has
\* reconnected to another instance
C36_ConnectedImpliesOnline ==
  \A u \in Users :
    (/\ \E i \in live : clients[i][u].role = "mobile"
     /\ \A i \in live : cmdq[i] = <<>> /\ replies[i] = <<>>
     /\ now < meta[u].lastSeen + PRESENCE_TTL)
    => Exists(u)

\* C37: a HEARTBEAT frame received on the connection of user A changes only
\* A's presence record: whatever fromId the frame carries, no frame sent
\* over A's connection alters the TTL of presence:user:{B} or a field of
\* presence:meta:{B} for another user B
C37_OwnUser ==
  \A key \in Conns, fromId \in Users :
    Heartbeat(key, fromId) =>
      Last(cmdq'[sock[key].inst]).user = sock[key].user

\* where the only connection is A's, the record of B stays as it was
C37_OthersUntouched ==
  (\A key \in Conns : sock[key].user \in {<<>>, <<"A">>}) =>
    (pkey[<<"B">>] = 0 /\ meta[<<"B">>] = NoMeta)

C37_HeartbeatOwnRecord == [][C37_OwnUser]_vars /\ []C37_OthersUntouched

\* C38: every entry of the users list of a presence snapshot has status
\* "online" and totalOnline equals the length of that list, also when a
\* presence key expires or is deleted between the enumeration of the
\* presence:user:* keys and the bulk status transaction
C38_SnapshotAllOnline ==
  \A key \in Conns : \A n \in 1..Len(recv[key]) :
    recv[key][n].type = "PRESENCE_SNAPSHOT" =>
      LET users == recv[key][n].users IN
      /\ \A m \in 1..Len(users) : users[m].status = "online"
      /\ totalOnline(users) = Len(users)

\* --------------------------------------------------------- ids with ':'
\* one worker; the presence manager is called for user A and for user A:x,
\* and keys expire
NextColon ==
  \/ Tick
  \/ \E u \in {<<"A">>} \cup ColonIds : CallSetUserOnline("w1", u)
  \/ TransitionStep("w1") \/ HandleExpired("w1")

SpecColon == Init /\ [][NextColon]_vars

\* C39: for every user id u, also one that contains ':', the user id
\* recovered from the key presence:user:{u} (on an expired-key event and
\* when enumerating online users) equals u, so that the offline transition
\* and the snapshot entry are applied to exactly the user whose key it was
C39_ExpiredUser ==
  \A i \in Instances :
    HandleExpired(i) =>
      forPresence(Last(cmdq'[i]).user) = Head(expq[i])

C39_EnumeratedUser ==
  \A i \in Instances :
    OnKeysReply(i) =>
      \A n \in 1..Len(Head(replies[i]).keys) :
        forPresence(Last(cmdq'[i]).ids[n]) = Head(replies[i]).keys[n]

C39_KeyRoundTrip == [][C39_ExpiredUser /\ C39_EnumeratedUser]_vars

\* ------------------------------------------------------ duplicate logins
\* one worker; user A logs in on either socket, in any role, and sockets
\* close
NextRelogin ==
  \/ \E key \in Conns, role \in Roles :
       registerClient("w1", key, <<"A">>, role)
  \/ \E key \in Conns : SocketClose(key)
  \/ TransitionStep("w1")
  \/ SnapshotStep("w1")
  \/ BulkStep("w1")

SpecRelogin == Init /\ [][NextRelogin]_vars

\* C40: in every reachable state of one router instance, every entry of
\* the dashboard broadcast set refers to the socket currently stored in the
\* socket index for its userId, and no socket appears in the set more than
\* once, across any sequence of dashboard registrations, duplicate logins
\* and unregisters
C40_EntriesCurrent ==
  \A i \in Instances : \A n \in 1..Len(webClients[i]) :
    webClients[i][n].socket = sockets[i][webClients[i][n].userId]

C40_NoSocketTwice ==
  \A i \in Instances : \A m, n \in 1..Len(webClients[i]) :
    webClients[i][m].socket = webClients[i][n].socket => m = n

C40_BroadcastSetCurrent == C40_EntriesCurrent /\ C40_NoSocketTwice

====
